---- MODULE Spec2Model ----
(***************************************************************************)
(* The backward-reachability (PDR/IC3) search of SPACER over a bounded     *)
(* finite constrained-Horn-clause system.                                  *)
(*                                                                         *)
(* Formulas are modelled by their meaning: a formula over a relation's     *)
(* argument vector is the set of states that satisfy it.  A lemma is the   *)
(* negation of a cube, and is stored as the cube (the set of states it     *)
(* blocks).  The satisfiability oracle is exact on these finite sets, and  *)
(* may also answer unknown.                                                *)
(*                                                                         *)
(* The class declarations (spacer_context.h) and the level arithmetic      *)
(* (spacer_util.h) are translated from the sources; the bodies of the      *)
(* search procedures are not part of the sources and follow the design     *)
(* document.                                                               *)
(***************************************************************************)
EXTENDS Integers, FiniteSets, Sequences, TLC

\* ------------------------------------------------------------------ bounds
\* greatest value of a relation argument
MaxVal == 2
\* greatest level ceiling the search is run to
MaxLevel == 3
\* width in bits of the unsigned level type
LevelWidth == 3
\* width in bits of the unsigned call counter m_num_contexts
CounterWidth == 3
\* greatest max_num_contexts a manager is constructed with
MaxContexts == 4

VARIABLES
    sys,           \* the rule system: [init, bound, bad]
    lemmas,        \* relation -> set of lemma records (frames::m_pinned_lemmas)
    reach,         \* relation -> set of states with a reachability fact
    pobs,          \* pob id -> pob record
    queue,         \* pob_queue::m_obligations (ids of queued pobs)
    m_root,        \* pob_queue::m_root (a pob id, 0 for null)
    m_max_level,   \* pob_queue::m_max_level
    m_min_depth,   \* pob_queue::m_min_depth
    pc,            \* position of context::solve_core
    verdict,       \* context::m_last_result: "none", "sat", "unsat", "unknown"
    cancelled,     \* the cancellation flag polled by context::checkpoint
    lastOp,        \* the step taken last
    lastDeq,       \* <<level, depth>> of the pob dequeued last, or <<>>
    pushedSince,   \* a pob was pushed since the last dequeue
    prevDeq,       \* value of lastDeq before the last dequeue
    prevPushed,    \* value of pushedSince before the last dequeue
    prop_lvl,      \* the level context::propagate is at
    prop_failed,   \* some lemma failed to propagate in this call
    lastPob,       \* the pob the last pob operation acted on, as it was before
    lastMdl,       \* the model the last derivation was made from, or <<>>
    lastCall,      \* the last call of frames::add_lemma: [cube, lvl, ret], or <<>>
    manager,       \* the smt_context_manager: [m_max_num_contexts, m_num_contexts, m_solvers]
    served,        \* the calls of mk_fresh so far and what the last one did
    outstanding,   \* per factory, the solvers handed out and not yet released
    walk,          \* the level operations applied so far: <<op, argument, result>>
    heap,          \* reference-counted pobs and lemmas and who refers to them
    tg,            \* a term graph: [graph, ops, op, out], op the last call, out that of a projection
    gg,            \* the global generalizer, its solver, and the lemma, pob and cluster of a call
    hr             \* a call of the hypothesis reducer on a proof

vars == <<sys, lemmas, reach, pobs, queue, m_root, m_max_level, m_min_depth, pc,
          verdict, cancelled, lastOp, lastDeq, pushedSince, prevDeq, prevPushed,
          prop_lvl, prop_failed, lastPob, lastMdl, lastCall, manager, served, outstanding, walk, heap, tg, gg, hr>>

\* the state of the solver pool
poolVars == <<manager, served, outstanding>>

\* no manager has been constructed
PoolIdle ==
    /\ manager = <<>>
    /\ served = <<>>
    /\ outstanding = <<>>

\* the state of the harnesses that run beside the search
harnessVars == <<poolVars, walk, heap, tg, gg, hr>>

\* no harness is in use
HarnessIdle ==
    /\ PoolIdle
    /\ walk = <<>>
    /\ heap = <<>>
    /\ tg = <<>>
    /\ gg = <<>>
    /\ hr = <<>>

\* ------------------------------------------------------- level arithmetic
LevelMod == 2 ^ LevelWidth

infty_level == LevelMod - 1

is_infty_level(lvl) == lvl = infty_level

next_level_wraps(lvl) == (lvl + 1) % LevelMod

next_level(lvl) == IF is_infty_level(lvl) THEN lvl ELSE (lvl + 1) % LevelMod

prev_level_same(lvl) == lvl

prev_level(lvl) ==
    IF is_infty_level(lvl) THEN infty_level
    ELSE IF lvl = 0 THEN 0
    ELSE lvl - 1

\* ------------------------------------------------------- the rule system
\* Relations: P with one argument, and the nullary query relation Q.
Rels == {"P", "Q"}

Vals == 0 .. MaxVal

\* the states of a relation (the values of its argument vector)
Dom(R) == IF R = "P" THEN Vals ELSE {0}

\* The rule systems the search is run on:
\*     -> P(x)               for x < init
\*     P(x) & x < bound  -> P(x+1)
\*     P(x) & x >= bad   -> Q()
Systems == [init : 0 .. 2, bound : 0 .. MaxVal, bad : 0 .. MaxVal + 1]

\* heads of the rules of R without body atoms
InitFacts(R) == IF R = "P" THEN {x \in Vals : x < sys.init} ELSE {}

\* instances <<body relation, body state, head state>> of the rules of R
\* with a body atom
Trans(R) ==
    IF R = "P"
    THEN {<<"P", x, x + 1>> : x \in {v \in Vals : v < sys.bound /\ v + 1 \in Vals}}
    ELSE {<<"P", x, 0>> : x \in {v \in Vals : v >= sys.bad}}

\* ------------------------------------------------------------- frames
\* A lemma record: cube (the states the lemma blocks), lvl (lemma::m_lvl),
\* active (the lemma is in frames::m_lemmas).  F is the lemma set of one
\* relation.

get_frame_geq_lemmas_wrong(F, level) == {l \in F : l.active /\ l.lvl <= level}

get_frame_geq_lemmas_strict(F, level) == {l \in F : l.active /\ l.lvl > level}

\* frames::get_frame_geq_lemmas
get_frame_geq_lemmas(F, level) == {l \in F : l.active /\ l.lvl >= level}

\* frames::get_frame_lemmas
get_frame_lemmas(F, level) == {l \in F : l.active /\ l.lvl = level}

\* the states of R that satisfy frame(R, level)
FrameStates(F, R, level) ==
    {s \in Dom(R) : \A l \in get_frame_geq_lemmas(F, level) : s \notin l.cube}

\* lemma::is_inductive
is_inductive(l) == is_infty_level(l.lvl)

\* ------------------------------------------------------------ the oracle
\* The models of "transition(R) /\ frame(level-1) /\ premises /\ post":
\* a rule instance whose head state is in post and whose body state is
\* allowed by the frame of the body relation one level below, or is
\* certified by a reachability fact.  At level 0 only rules without body
\* atoms are enabled.
is_reachable_models(FS, RF, R, post, level) ==
    {[body |-> "init", b |-> 0, h |-> h] : h \in InitFacts(R) \cap post}
    \cup
    (IF level = 0 THEN {}
     ELSE {[body |-> t[1], b |-> t[2], h |-> t[3]] :
              t \in {u \in Trans(R) :
                        /\ u[3] \in post
                        /\ \/ u[2] \in FrameStates(FS[u[1]], u[1], prev_level(level))
                           \/ u[2] \in RF[u[1]]}})

\* pred_transformer::is_invariant: the lemma with the given cube holds at
\* `level` when no rule leads from the frames one level below into the cube
is_invariant(FS, R, cube, level) ==
    is_reachable_models(FS, [X \in Rels |-> {}], R, cube, level) = {}

\* The outcomes of the generalizer chain on a blocked post-condition: the
\* candidate as it is (no generalizer weakened it), or the weakest cube that
\* is still blocked at the level (every state whose own cube is blocked)
generalizations(FS, RF, R, post, level) ==
    {post,
     {x \in Dom(R) : x \in post \/ is_reachable_models(FS, RF, R, {x}, level) = {}}}

projections_unguided(R, post, mdl) == {{x} : x \in Dom(mdl.body)}

\* The outcomes of model-based projection for a body atom: the projected
\* state of the model alone, or every state of the body relation that the
\* rule takes into the post-condition
projections(R, post, mdl) ==
    {{mdl.b},
     {t[2] : t \in {u \in Trans(R) : u[1] = mdl.body /\ u[3] \in post}}}

\* a model is concrete when every body atom of its rule is justified by a
\* reachability fact
is_concrete(RF, mdl) ==
    IF mdl.body = "init" THEN TRUE ELSE mdl.b \in RF[mdl.body]

\* ------------------------------------------------------- lemma insertion
\* an equal-or-stronger lemma is already recorded at a level >= lvl
add_lemma_is_noop(F, cube, lvl) ==
    \E l \in F : l.active /\ cube \subseteq l.cube /\ l.lvl >= lvl

\* frames::add_lemma: the value returned, whether the frame set changed
add_lemma_ret(F, cube, lvl) == ~add_lemma_is_noop(F, cube, lvl)

add_lemma_always(F, cube, lvl) ==
    {l \in F : l.cube # cube} \cup {[cube |-> cube, lvl |-> lvl, active |-> TRUE]}

\* frames::add_lemma: the frame set after inserting the lemma
add_lemma(F, cube, lvl) ==
    IF add_lemma_is_noop(F, cube, lvl) THEN F
    ELSE LET subsumed(l) == l.active /\ l.lvl = lvl /\ l.cube \subseteq cube
             others == {l \in F : l.cube # cube}
         IN  {IF subsumed(l) THEN [l EXCEPT !.active = FALSE] ELSE l : l \in others}
             \cup {[cube |-> cube, lvl |-> lvl, active |-> TRUE]}

\* frames::inherit_frames: a copy of every active lemma of `other` (the
\* sequence other.m_lemmas) is added at the level of the lemma
RECURSIVE inherit_frames(_, _)
inherit_frames(F, other) ==
    IF other = <<>> THEN F
    ELSE inherit_frames(add_lemma(F, Head(other).cube, Head(other).lvl), Tail(other))

\* ------------------------------------------------------------ propagation
\* lemma::set_level
set_level(l, lvl) == [l EXCEPT !.lvl = lvl]

\* frames::propagate_to_next_level for relation R: the lemmas at `level`
\* that are invariant one level up move there; failed tells whether some
\* lemma at `level` stayed behind
propagate_to_next_level(FS, R, level) ==
    LET at == get_frame_lemmas(FS[R], level)
        ok == {l \in at : is_invariant(FS, R, l.cube, next_level(level))}
    IN  [lemmas |-> (FS[R] \ ok) \cup {set_level(l, next_level(level)) : l \in ok},
         failed |-> at # ok]

\* frames::propagate_to_infinity
propagate_to_infinity(F, level) ==
    {IF l.active /\ l.lvl = level THEN set_level(l, infty_level) ELSE l : l \in F}

\* one level of context::propagate: propagate_to_next_level(lvl) for every
\* relation
propagate_level(FS, lvl) ==
    LET step == [R \in Rels |-> propagate_to_next_level(FS, R, lvl)]
    IN  [fs |-> [R \in Rels |-> step[R].lemmas],
         failed |-> \E R \in Rels : step[R].failed]

\* ------------------------------------------------------------------ pobs
\* A pob record: pt (relation), post (the states of the post-condition),
\* level, depth, open (m_open), parent (pob id, 0 for the root), kids
\* (m_kids), derivation (the pob has a derivation attached).
RootId == 1

\* pob::pob with set_post
mk_pob(parent, pt, level, depth, post) ==
    [pt |-> pt, post |-> post, level |-> level, depth |-> depth, open |-> TRUE,
     parent |-> parent, kids |-> {}, derivation |-> FALSE, weakness |-> 0]

\* pob::bump_weakness
bump_weakness(n) == [n EXCEPT !.weakness = n.weakness + 1]

\* pob::reset_weakness
reset_weakness(n) == [n EXCEPT !.weakness = 0]

\* pob::inc_level
pob_inc_level(n) ==
    reset_weakness([n EXCEPT !.level = (n.level + 1) % LevelMod,
                             !.depth = n.depth + 1])

\* pob::set_derivation; d tells whether a derivation is attached
set_derivation(n, d) == [n EXCEPT !.derivation = d]

pob_reset_keeps_status(n) == set_derivation(n, FALSE)

\* pob::reset
pob_reset(n) == [set_derivation(n, FALSE) EXCEPT !.open = TRUE]

\* pob::is_closed
is_closed(n) == ~n.open

\* pob::close: the pob is resolved
pob_close(n) == IF is_closed(n) THEN n ELSE [pob_reset(n) EXCEPT !.open = FALSE]

add_child_forgets(n, kid) == n

\* pob::add_child
add_child(n, kid) == [n EXCEPT !.kids = n.kids \cup {kid}]

erase_child_keeps(n, kid) == n

\* pob::erase_child
erase_child(n, kid) == [n EXCEPT !.kids = n.kids \ {kid}]

\* pob::~pob after the last reference is dropped: the pob leaves its
\* parent's child list and is freed
destroy_pob(PB, i) ==
    [j \in DOMAIN PB \ {i} |->
        IF j = PB[i].parent THEN erase_child(PB[j], i) ELSE PB[j]]

\* ------------------------------------------------------- obligation queue
\* pob_lt: ascending level, then ascending depth
pob_lt(n1, n2) ==
    \/ n1.level < n2.level
    \/ n1.level = n2.level /\ n1.depth < n2.depth

pob_gt_unswapped(n1, n2) == pob_lt(n1, n2)

\* pob_gt
pob_gt(n1, n2) == pob_lt(n2, n1)

pob_ref_gt_swapped(n1, n2) == pob_gt(n2, n1)

\* pob_ref_gt
pob_ref_gt(n1, n2) == pob_gt(n1, n2)

queue_tops_unordered(PB, Q) == Q

\* std::priority_queue<pob_ref, ..., pob_ref_gt>::top: an element that the
\* comparison puts before no other element
queue_tops(PB, Q) == {i \in Q : \A j \in Q : ~pob_ref_gt(PB[i], PB[j])}

\* pob_queue::pop of the top element t
queue_pop(Q, t) == Q \ {t}

\* pob_queue::push
queue_push(Q, i) == Q \cup {i}

inc_level_never_pushes(q) ==
    [q EXCEPT !.max_level = (q.max_level + 1) % LevelMod,
              !.min_depth = q.min_depth + 1]

\* pob_queue::inc_level on the queue state q = [root, max_level, min_depth,
\* obligations]; root = 0 stands for a null m_root
inc_level(q) ==
    [q EXCEPT !.max_level = (q.max_level + 1) % LevelMod,
              !.min_depth = q.min_depth + 1,
              !.obligations = IF q.root # 0 /\ q.obligations = {}
                              THEN queue_push(q.obligations, q.root)
                              ELSE q.obligations]

\* pob_queue::is_root
is_root(root, i) == root = i

\* the key the queue orders by
Key(n) == <<n.level, n.depth>>

KeyLeq(k1, k2) == k1[1] < k2[1] \/ (k1[1] = k2[1] /\ k1[2] <= k2[2])

\* ------------------------------------------------------- the solve loop
Init ==
    /\ sys \in Systems
    /\ lemmas = [R \in Rels |-> {}]
    /\ reach = [R \in Rels |-> {}]
    /\ pobs = [i \in {RootId} |-> mk_pob(0, "Q", 0, 0, Dom("Q"))]
    /\ queue = {RootId}
    /\ m_root = RootId
    /\ m_max_level = 0
    /\ m_min_depth = 0
    /\ pc = "search"
    /\ verdict = "none"
    /\ cancelled = FALSE
    /\ lastOp = "init"
    /\ lastDeq = <<>>
    /\ pushedSince = FALSE
    /\ prevDeq = <<>>
    /\ prevPushed = FALSE
    /\ prop_lvl = 1
    /\ prop_failed = FALSE
    /\ lastPob = <<>>
    /\ lastMdl = <<>>
    /\ lastCall = <<>>
    /\ HarnessIdle

checkpoint_ignored == FALSE

\* context::checkpoint: the cancellation is observed
checkpoint == cancelled

\* the queue iteration runs: the root is open and the queue is not empty
ExpandGuard ==
    /\ pc = "search"
    /\ ~checkpoint
    /\ queue # {}
    /\ pobs[m_root].open

\* bookkeeping of a dequeue of pob n; pushed tells whether the step pushes
Dequeued(n, pushed) ==
    /\ lastDeq' = Key(n)
    /\ prevDeq' = lastDeq
    /\ prevPushed' = pushedSince
    /\ pushedSince' = pushed

\* the pob ids: a chain of pobs has one pob per level from the ceiling down
\* to 0, and the pob that is being expanded makes one more
PobIds == 1 .. (MaxLevel + 3)

\* the least pob id not in use, 0 when every id is in use
FreshId ==
    IF PobIds \subseteq DOMAIN pobs THEN 0
    ELSE CHOOSE k \in PobIds : k \notin DOMAIN pobs /\
             \A j \in 1 .. (k - 1) : j \in DOMAIN pobs

\* the cancellation is raised from outside the search
Cancel ==
    /\ pc # "done"
    /\ ~cancelled
    /\ cancelled' = TRUE
    /\ lastOp' = "cancel"
    /\ UNCHANGED <<harnessVars, lastCall, lastMdl, lastPob, sys, m_root, lemmas, reach, pobs, queue, m_max_level, m_min_depth,
                   pc, verdict, lastDeq, pushedSince, prevDeq, prevPushed,
                   prop_lvl, prop_failed>>

\* the checkpoint of a queue iteration observes the cancellation
Abort ==
    /\ pc = "search"
    /\ checkpoint
    /\ verdict' = "unknown"
    /\ pc' = "done"
    /\ lastOp' = "abort"
    /\ UNCHANGED <<harnessVars, lastCall, lastMdl, lastPob, sys, m_root, lemmas, reach, pobs, queue, m_max_level, m_min_depth,
                   cancelled, lastDeq, pushedSince, prevDeq, prevPushed,
                   prop_lvl, prop_failed>>

ExpandUnknown_coerced ==
    /\ ExpandGuard
    /\ \E i \in queue_tops(pobs, queue) :
        /\ pobs' = [pobs EXCEPT ![i] = pob_close(@)]
        /\ lemmas' = [lemmas EXCEPT ![pobs[i].pt] =
                         add_lemma(@, pobs[i].post, pobs[i].level)]
    /\ verdict' = "unsat"
    /\ pc' = "done"
    /\ lastOp' = "unknown"
    /\ UNCHANGED <<harnessVars, lastCall, lastMdl, lastPob, sys, m_root, reach, queue, m_max_level, m_min_depth,
                   cancelled, lastDeq, pushedSince, prevDeq, prevPushed,
                   prop_lvl, prop_failed>>

\* context::expand_pob, the oracle answers unknown
ExpandUnknown ==
    /\ ExpandGuard
    /\ verdict' = "unknown"
    /\ pc' = "done"
    /\ lastOp' = "unknown"
    /\ UNCHANGED <<harnessVars, lastCall, lastMdl, lastPob, sys, m_root, lemmas, reach, pobs, queue, m_max_level, m_min_depth,
                   cancelled, lastDeq, pushedSince, prevDeq, prevPushed,
                   prop_lvl, prop_failed>>

\* context::expand_pob, the oracle answers unsat: a generalization of the
\* post-condition that is still blocked is committed as a lemma at the
\* level of the pob, and the pob is closed
ExpandBlocked ==
    /\ ExpandGuard
    /\ \E i \in queue_tops(pobs, queue) :
        LET n == pobs[i] IN
        /\ is_reachable_models(lemmas, reach, n.pt, n.post, n.level) = {}
        /\ \E cube \in generalizations(lemmas, reach, n.pt, n.post, n.level) :
              /\ lemmas' = [lemmas EXCEPT ![n.pt] = add_lemma(@, cube, n.level)]
        /\ queue' = queue_pop(queue, i)
        /\ Dequeued(n, FALSE)
        /\ IF is_root(m_root, i)
           THEN /\ pobs' = [pobs EXCEPT ![i] = pob_close(n)]
                /\ pc' = "propagate"
           ELSE /\ pobs' = destroy_pob([pobs EXCEPT ![i] = pob_close(n)], i)
                /\ pc' = pc
    /\ prop_lvl' = 1
    /\ prop_failed' = FALSE
    /\ lastOp' = "blocked"
    /\ UNCHANGED <<harnessVars, lastCall, lastMdl, lastPob, sys, m_root, reach, m_max_level, m_min_depth, verdict, cancelled>>

\* context::expand_pob, the oracle answers sat with a concrete model: the
\* pob is proven reachable, a reachability fact is recorded and the pob is
\* closed; a reachable root ends the search
ExpandReachable ==
    /\ ExpandGuard
    /\ \E i \in queue_tops(pobs, queue) :
        LET n == pobs[i] IN
        /\ \E mdl \in is_reachable_models(lemmas, reach, n.pt, n.post, n.level) :
              /\ is_concrete(reach, mdl)
              /\ reach' = [reach EXCEPT ![n.pt] = @ \cup {mdl.h}]
        /\ queue' = queue_pop(queue, i)
        /\ Dequeued(n, FALSE)
        /\ IF is_root(m_root, i)
           THEN /\ pobs' = [pobs EXCEPT ![i] = pob_close(n)]
                /\ verdict' = "sat"
                /\ pc' = "done"
           ELSE /\ pobs' = destroy_pob([pobs EXCEPT ![i] = pob_close(n)], i)
                /\ verdict' = verdict
                /\ pc' = pc
    /\ lastOp' = "reachable"
    /\ UNCHANGED <<harnessVars, lastCall, lastMdl, lastPob, sys, m_root, lemmas, m_max_level, m_min_depth, cancelled, prop_lvl,
                   prop_failed>>

\* context::expand_pob with context::create_children, the oracle answers
\* sat with a model whose body atom is not justified: a child pob is made
\* one level below for the projection of the model, and the pob is put
\* back in the queue with it
ExpandChildren ==
    /\ ExpandGuard
    /\ \E i \in queue_tops(pobs, queue) :
        LET n == pobs[i] IN
        \E mdl \in is_reachable_models(lemmas, reach, n.pt, n.post, n.level) :
            /\ ~is_concrete(reach, mdl)
            /\ FreshId # 0
            /\ LET k == FreshId
               IN \E post \in projections(n.pt, n.post, mdl) :
                    /\ pobs' = [j \in DOMAIN pobs \cup {k} |->
                                 IF j = k
                                 THEN mk_pob(i, mdl.body, n.level - 1,
                                             n.depth + 1, post)
                                 ELSE IF j = i
                                      THEN set_derivation(add_child(n, k), TRUE)
                                 ELSE pobs[j]]
                    /\ queue' = queue_push(queue_push(queue_pop(queue, i), k), i)
            /\ lastMdl' = mdl
            /\ Dequeued(n, TRUE)
    /\ lastOp' = "children"
    /\ UNCHANGED <<harnessVars, lastCall, lastPob, sys, m_root, lemmas, reach, m_max_level, m_min_depth, pc, verdict,
                   cancelled, prop_lvl, prop_failed>>

\* context::propagate is not called at ceiling 0
SkipPropagate ==
    /\ pc = "propagate"
    /\ m_max_level = 0
    /\ pc' = "inc"
    /\ lastOp' = "skip"
    /\ UNCHANGED <<harnessVars, lastCall, lastMdl, lastPob, sys, m_root, lemmas, reach, pobs, queue, m_max_level, m_min_depth,
                   verdict, cancelled, lastDeq, pushedSince, prevDeq, prevPushed,
                   prop_lvl, prop_failed>>

\* one round of the loop of context::propagate: the lemmas of every
\* relation at level prop_lvl are pushed one level up
PropagateLevel ==
    /\ pc = "propagate"
    /\ m_max_level > 0
    /\ prop_lvl <= m_max_level
    /\ LET r == propagate_level(lemmas, prop_lvl) IN
          /\ lemmas' = r.fs
          /\ prop_failed' = (prop_failed \/ r.failed)
    /\ prop_lvl' = prop_lvl + 1
    /\ lastOp' = "propagate"
    /\ UNCHANGED <<harnessVars, lastCall, lastMdl, lastPob, sys, m_root, reach, pobs, queue, m_max_level, m_min_depth, pc,
                   verdict, cancelled, lastDeq, pushedSince, prevDeq, prevPushed>>

PropagateEnd_never_stops ==
    /\ pc = "propagate"
    /\ m_max_level > 0
    /\ prop_lvl > m_max_level
    /\ pc' = "inc"
    /\ lastOp' = "propagated"
    /\ UNCHANGED <<harnessVars, lastCall, lastMdl, lastPob, sys, m_root, lemmas, reach, pobs, queue, m_max_level, m_min_depth,
                   verdict, cancelled, lastDeq, pushedSince, prevDeq, prevPushed,
                   prop_lvl, prop_failed>>

\* the end of context::propagate and the verdict drawn from it: when no
\* lemma failed to propagate, the lemmas of the last level are made
\* invariants and the search ends unsat
PropagateEnd ==
    /\ pc = "propagate"
    /\ m_max_level > 0
    /\ prop_lvl > m_max_level
    /\ IF prop_failed
       THEN /\ lemmas' = lemmas
            /\ pc' = "inc"
            /\ verdict' = verdict
            /\ lastOp' = "propagated"
       ELSE /\ lemmas' = [R \in Rels |->
                   propagate_to_infinity(lemmas[R], next_level(m_max_level))]
            /\ pc' = "done"
            /\ verdict' = "unsat"
            /\ lastOp' = "fixpoint"
    /\ UNCHANGED <<harnessVars, lastCall, lastMdl, lastPob, sys, m_root, reach, pobs, queue, m_max_level, m_min_depth,
                   cancelled, lastDeq, pushedSince, prevDeq, prevPushed,
                   prop_lvl, prop_failed>>

\* context::propagate, the oracle answers unknown to an inductiveness query
PropagateUnknown ==
    /\ pc = "propagate"
    /\ m_max_level > 0
    /\ prop_lvl <= m_max_level
    /\ \E R \in Rels : get_frame_lemmas(lemmas[R], prop_lvl) # {}
    /\ verdict' = "unknown"
    /\ pc' = "done"
    /\ lastOp' = "unknown"
    /\ UNCHANGED <<harnessVars, lastCall, lastMdl, lastPob, sys, m_root, lemmas, reach, pobs, queue, m_max_level, m_min_depth,
                   cancelled, lastDeq, pushedSince, prevDeq, prevPushed,
                   prop_lvl, prop_failed>>

\* the next outer iteration: the root is opened again and raised to the
\* new ceiling, and pob_queue::inc_level puts it back in the queue
IncLevel ==
    /\ pc = "inc"
    /\ m_max_level < MaxLevel
    /\ LET root == pob_inc_level(pob_reset(pobs[m_root]))
           q == inc_level([root |-> m_root, max_level |-> m_max_level,
                           min_depth |-> m_min_depth, obligations |-> queue])
       IN /\ pobs' = [pobs EXCEPT ![m_root] = root]
          /\ queue' = q.obligations
          /\ m_max_level' = q.max_level
          /\ m_min_depth' = q.min_depth
          /\ pushedSince' = (pushedSince \/ queue' # queue)
    /\ pc' = "search"
    /\ lastOp' = "inc_level"
    /\ UNCHANGED <<harnessVars, lastCall, lastMdl, lastPob, sys, m_root, lemmas, reach, verdict, cancelled, lastDeq, prevDeq,
                   prevPushed, prop_lvl, prop_failed>>

\* the level budget is used up
Exhausted ==
    /\ pc = "inc"
    /\ m_max_level >= MaxLevel
    /\ verdict' = "unknown"
    /\ pc' = "done"
    /\ lastOp' = "exhausted"
    /\ UNCHANGED <<harnessVars, lastCall, lastMdl, lastPob, sys, m_root, lemmas, reach, pobs, queue, m_max_level, m_min_depth,
                   cancelled, lastDeq, pushedSince, prevDeq, prevPushed,
                   prop_lvl, prop_failed>>

Next ==
    \/ Cancel
    \/ Abort
    \/ ExpandUnknown
    \/ ExpandBlocked
    \/ ExpandReachable
    \/ ExpandChildren
    \/ SkipPropagate
    \/ PropagateLevel
    \/ PropagateEnd
    \/ PropagateUnknown
    \/ IncLevel
    \/ Exhausted

Spec == Init /\ [][Next]_vars

\* ------------------------------------- the pob and pob_queue operations
\* The operations of pob and pob_queue called in any order on a pool of two
\* pobs, as a client of the two classes may call them.
QIds == {1, 2}

QInit ==
    /\ sys = [init |-> 0, bound |-> 0, bad |-> 0]
    /\ lemmas = [R \in Rels |-> {}]
    /\ reach = [R \in Rels |-> {}]
    /\ pobs = [i \in {} |-> mk_pob(0, "Q", 0, 0, Dom("Q"))]
    /\ queue = {}
    /\ m_root = 0
    /\ m_max_level = 0
    /\ m_min_depth = 0
    /\ pc = "api"
    /\ verdict = "none"
    /\ cancelled = FALSE
    /\ lastOp = "init"
    /\ lastDeq = <<>>
    /\ pushedSince = FALSE
    /\ prevDeq = <<>>
    /\ prevPushed = FALSE
    /\ prop_lvl = 1
    /\ prop_failed = FALSE
    /\ lastPob = <<>>
    /\ lastMdl = <<>>
    /\ lastCall = <<>>
    /\ HarnessIdle

\* the variables no pob or queue operation touches
QFixed ==
    UNCHANGED <<sys, lemmas, reach, pc, verdict, cancelled, prevDeq, prevPushed,
                prop_lvl, prop_failed, lastMdl, lastCall, harnessVars>>

\* an operation on the pob i alone, taking it to the record n
QPobOp(i, n, op) ==
    /\ pobs' = [pobs EXCEPT ![i] = n]
    /\ lastPob' = pobs[i]
    /\ lastOp' = op
    /\ pushedSince' = FALSE
    /\ UNCHANGED <<queue, m_root, m_max_level, m_min_depth, lastDeq>>
    /\ QFixed

\* pobs::mk_pob: a pob without parent at level 0
QMkPob ==
    /\ \E i \in QIds \ DOMAIN pobs :
          pobs' = [j \in DOMAIN pobs \cup {i} |->
                      IF j = i THEN mk_pob(0, "Q", 0, 0, Dom("Q")) ELSE pobs[j]]
    /\ lastPob' = <<>>
    /\ lastOp' = "mk_pob"
    /\ pushedSince' = FALSE
    /\ UNCHANGED <<queue, m_root, m_max_level, m_min_depth, lastDeq>>
    /\ QFixed

\* pob_queue::set_root
QSetRoot ==
    /\ \E i \in DOMAIN pobs : m_root' = i
    /\ lastPob' = <<>>
    /\ lastOp' = "set_root"
    /\ pushedSince' = FALSE
    /\ UNCHANGED <<pobs, queue, m_max_level, m_min_depth, lastDeq>>
    /\ QFixed

\* pob_queue::push of a pob that is not queued
QPush ==
    /\ \E i \in DOMAIN pobs \ queue : queue' = queue_push(queue, i)
    /\ lastPob' = <<>>
    /\ lastOp' = "push"
    /\ pushedSince' = TRUE
    /\ UNCHANGED <<pobs, m_root, m_max_level, m_min_depth, lastDeq>>
    /\ QFixed

\* pob_queue::top and pob_queue::pop
QPop ==
    /\ queue # {}
    /\ \E t \in queue_tops(pobs, queue) :
          queue' = queue_pop(queue, t)
    /\ lastPob' = <<>>
    /\ lastOp' = "pop"
    /\ pushedSince' = FALSE
    /\ UNCHANGED <<pobs, m_root, m_max_level, m_min_depth, lastDeq>>
    /\ QFixed

\* pob_queue::inc_level, called where its assertion holds
QIncLevel ==
    /\ queue # {} \/ m_root # 0
    /\ m_max_level < MaxLevel
    /\ LET q == inc_level([root |-> m_root, max_level |-> m_max_level,
                           min_depth |-> m_min_depth, obligations |-> queue])
       IN /\ queue' = q.obligations
          /\ m_max_level' = q.max_level
          /\ m_min_depth' = q.min_depth
          /\ pushedSince' = (queue' # queue)
    /\ lastPob' = <<>>
    /\ lastOp' = "inc_level"
    /\ UNCHANGED <<pobs, m_root, lastDeq>>
    /\ QFixed

\* pob::inc_level of a pob that is not queued
QPobIncLevel ==
    \E i \in DOMAIN pobs \ queue :
        /\ pobs[i].level < MaxLevel
        /\ QPobOp(i, pob_inc_level(pobs[i]), "pob_inc_level")

\* pob::set_derivation on an open pob
QSetDerivation ==
    \E i \in DOMAIN pobs :
        /\ pobs[i].open
        /\ ~pobs[i].derivation
        /\ QPobOp(i, set_derivation(pobs[i], TRUE), "set_derivation")

\* pob::close
QClose == \E i \in DOMAIN pobs : QPobOp(i, pob_close(pobs[i]), "close")

\* pob::reset
QReset == \E i \in DOMAIN pobs : QPobOp(i, pob_reset(pobs[i]), "reset")

QNext ==
    \/ QMkPob
    \/ QSetRoot
    \/ QPush
    \/ QPop
    \/ QIncLevel
    \/ QPobIncLevel
    \/ QSetDerivation
    \/ QClose
    \/ QReset

QueueSpec == QInit /\ [][QNext]_vars

\* ------------------------------------------------ the frames operations
\* The operations of pred_transformer::frames called in any order on the
\* frames of relation P, with lemmas of any level.
FLevels == (0 .. MaxLevel) \cup {infty_level}

FCubes == {{0}, {1}, {0, 1}}

\* the lemma vectors (m_lemmas) of the frames that are inherited from
FOthers ==
    LET recs == [cube : FCubes, lvl : FLevels, active : {TRUE}]
    IN  {<<a>> : a \in recs} \cup
        {<<a, b>> : a \in {c \in recs : c.cube = {0}},
                    b \in {c \in recs : c.cube = {0, 1}}}

FInit ==
    /\ sys \in {s \in Systems : s.init = 1 /\ s.bad = MaxVal + 1}
    /\ lemmas = [R \in Rels |-> {}]
    /\ reach = [R \in Rels |-> {}]
    /\ pobs = [i \in {} |-> mk_pob(0, "Q", 0, 0, Dom("Q"))]
    /\ queue = {}
    /\ m_root = 0
    /\ m_max_level = 0
    /\ m_min_depth = 0
    /\ pc = "api"
    /\ verdict = "none"
    /\ cancelled = FALSE
    /\ lastOp = "init"
    /\ lastDeq = <<>>
    /\ pushedSince = FALSE
    /\ prevDeq = <<>>
    /\ prevPushed = FALSE
    /\ prop_lvl = 1
    /\ prop_failed = FALSE
    /\ lastPob = <<>>
    /\ lastMdl = <<>>
    /\ lastCall = <<>>
    /\ HarnessIdle

\* the variables no frames operation touches
FFixed ==
    UNCHANGED <<sys, reach, pobs, queue, m_root, m_max_level, m_min_depth, pc,
                verdict, cancelled, lastDeq, pushedSince, prevDeq, prevPushed,
                lastPob, lastMdl, harnessVars>>

\* the operation is no call of propagate_to_next_level: no level and no
\* result of such a call is on record
FNoResult ==
    /\ prop_lvl' = 1
    /\ prop_failed' = FALSE

\* the operation is no call of add_lemma
FNoCall == lastCall' = <<>>

\* frames::add_lemma
FAddLemma ==
    /\ \E cube \in FCubes : \E lvl \in FLevels :
          /\ lemmas' = [lemmas EXCEPT !["P"] = add_lemma(@, cube, lvl)]
          /\ lastCall' = [cube |-> cube, lvl |-> lvl,
                          ret |-> add_lemma_ret(lemmas["P"], cube, lvl)]
    /\ lastOp' = "add_lemma"
    /\ FNoResult
    /\ FFixed

\* frames::propagate_to_next_level; the level of the call and the value it
\* returns are put on record
FPropagateNext ==
    /\ \E lvl \in FLevels :
          LET r == propagate_to_next_level(lemmas, "P", lvl)
          IN  /\ lemmas' = [lemmas EXCEPT !["P"] = r.lemmas]
              /\ prop_lvl' = lvl
              /\ prop_failed' = r.failed
    /\ FNoCall
    /\ lastOp' = "propagate_to_next_level"
    /\ FFixed

\* frames::propagate_to_infinity
FPropagateInf ==
    /\ \E lvl \in FLevels :
          lemmas' = [lemmas EXCEPT !["P"] = propagate_to_infinity(@, lvl)]
    /\ lastOp' = "propagate_to_infinity"
    /\ FNoResult
    /\ FNoCall
    /\ FFixed

\* frames::inherit_frames
FInherit ==
    /\ \E other \in FOthers :
          lemmas' = [lemmas EXCEPT !["P"] = inherit_frames(@, other)]
    /\ lastOp' = "inherit_frames"
    /\ FNoResult
    /\ FNoCall
    /\ FFixed

FNext ==
    \/ FAddLemma
    \/ FPropagateNext
    \/ FPropagateInf
    \/ FInherit

FrameSpec == FInit /\ [][FNext]_vars

\* ------------------------------------------------------ the solver pool
\* smt_context_manager keeps the solver factories it made in m_solvers and
\* counts the calls of mk_fresh in the unsigned m_num_contexts.  A factory
\* is modelled by the number of solvers it has made.

CounterMod == 2 ^ CounterWidth

\* calls of mk_fresh a run makes: the counter wraps around more than once
MaxCalls == 3 * CounterMod

\* a new virtual_solver_factory
virtual_solver_factory == 0

\* virtual_solver_factory::mk_solver
mk_solver(f) == f + 1

\* smt_context_manager::smt_context_manager
smt_context_manager(max_num_contexts) ==
    [m_max_num_contexts |-> max_num_contexts,
     m_num_contexts     |-> 0,
     m_solvers          |-> <<>>]

has_room_loose(p) ==
    p.m_max_num_contexts = 0 \/ Len(p.m_solvers) <= p.m_max_num_contexts

\* the test of mk_fresh: the pool is unbounded or not yet full
has_room(p) ==
    p.m_max_num_contexts = 0 \/ Len(p.m_solvers) < p.m_max_num_contexts

\* the index (from 0) of the factory mk_fresh takes once the counter is c
factory_index(p, c) ==
    IF has_room(p) THEN Len(p.m_solvers)
    ELSE ((c - 1) % CounterMod) % p.m_max_num_contexts

\* smt_context_manager::mk_fresh
mk_fresh(p) ==
    LET c == (p.m_num_contexts + 1) % CounterMod
        i == factory_index(p, c)
    IN  IF has_room(p)
        THEN [p EXCEPT !.m_num_contexts = c,
                       !.m_solvers = Append(@, mk_solver(virtual_solver_factory))]
        ELSE [p EXCEPT !.m_num_contexts = c,
                       !.m_solvers[i + 1] = mk_solver(@)]

\* ---- the manager under a sequence of mk_fresh calls
\* served: calls (the number of calls so far), index (the factory of the
\* last call, from 0; -1 before the first), created (the last call made its
\* factory), first (the last call was the first use of its factory), gap
\* (the factories used between the last call and the previous use of its
\* factory), since (per factory, the factories used since its last use).
PInit ==
    /\ manager \in {smt_context_manager(n) : n \in 0 .. MaxContexts}
    /\ served = [calls |-> 0, index |-> -1, created |-> FALSE, first |-> FALSE,
                 gap |-> <<>>, since |-> <<>>]
    /\ outstanding = <<>>
    /\ walk = <<>>
    /\ heap = <<>>
    /\ tg = <<>>
    /\ gg = <<>>
    /\ hr = <<>>
    /\ sys = [init |-> 0, bound |-> 0, bad |-> 0]
    /\ lemmas = [R \in Rels |-> {}]
    /\ reach = [R \in Rels |-> {}]
    /\ pobs = [i \in {} |-> mk_pob(0, "Q", 0, 0, Dom("Q"))]
    /\ queue = {}
    /\ m_root = 0
    /\ m_max_level = 0
    /\ m_min_depth = 0
    /\ pc = "api"
    /\ verdict = "none"
    /\ cancelled = FALSE
    /\ lastOp = "init"
    /\ lastDeq = <<>>
    /\ pushedSince = FALSE
    /\ prevDeq = <<>>
    /\ prevPushed = FALSE
    /\ prop_lvl = 1
    /\ prop_failed = FALSE
    /\ lastPob = <<>>
    /\ lastMdl = <<>>
    /\ lastCall = <<>>

\* the variables no operation of the manager touches
PFixed ==
    UNCHANGED <<sys, lemmas, reach, pobs, queue, m_root, m_max_level, m_min_depth,
                pc, verdict, cancelled, lastOp, lastDeq, pushedSince, prevDeq,
                prevPushed, prop_lvl, prop_failed, lastPob, lastMdl, lastCall, walk, heap, tg, gg, hr>>

\* a call of mk_fresh
PMkFresh ==
    /\ served.calls < MaxCalls
    /\ LET c == (manager.m_num_contexts + 1) % CounterMod
           i == factory_index(manager, c)
           made == Len(manager.m_solvers) < Len(mk_fresh(manager).m_solvers)
       IN  /\ manager' = mk_fresh(manager)
           /\ served' = [calls   |-> served.calls + 1,
                         index   |-> i,
                         created |-> made,
                         first   |-> made,
                         gap     |-> IF made THEN <<>> ELSE served.since[i + 1],
                         since   |-> [j \in 1 .. Len(mk_fresh(manager).m_solvers) |->
                                         IF j = i + 1 THEN <<>>
                                         ELSE IF j > Len(served.since) THEN <<i>>
                                         ELSE Append(served.since[j], i)]]
           /\ outstanding' = [j \in 1 .. Len(mk_fresh(manager).m_solvers) |->
                                 (IF j > Len(outstanding) THEN 0 ELSE outstanding[j])
                                 + (IF j = i + 1 THEN 1 ELSE 0)]
    /\ PFixed

PNext == PMkFresh

PoolSpec == PInit /\ [][PNext]_vars

\* ---- the manager and its callers: solvers are handed out and given back
\* solvers a caller holds at a time
MaxHeld == 2

\* a caller gives back a solver of the factory j (from 1)
URelease ==
    /\ \E j \in 1 .. Len(outstanding) :
          /\ outstanding[j] > 0
          /\ outstanding' = [outstanding EXCEPT ![j] = @ - 1]
    /\ UNCHANGED <<manager, served>>
    /\ PFixed

\* the number of solvers handed out and not given back
RECURSIVE Held(_)
Held(o) == IF o = <<>> THEN 0 ELSE Head(o) + Held(Tail(o))

\* a caller takes a solver with mk_fresh
UMkFresh ==
    /\ Held(outstanding) < MaxHeld
    /\ PMkFresh

UNext ==
    \/ UMkFresh
    \/ URelease

PoolUseSpec == PInit /\ [][UNext]_vars

\* ------------------------------------------------ harnesses: common part
\* the variables of the search, of the queue and of the frames
searchVars ==
    <<sys, lemmas, reach, pobs, queue, m_root, m_max_level, m_min_depth, pc,
      verdict, cancelled, lastOp, lastDeq, pushedSince, prevDeq, prevPushed,
      prop_lvl, prop_failed, lastPob, lastMdl, lastCall>>

\* no search is under way: no rules, lemmas, pobs or queue entries
SearchIdle ==
    /\ sys = [init |-> 0, bound |-> 0, bad |-> 0]
    /\ lemmas = [R \in Rels |-> {}]
    /\ reach = [R \in Rels |-> {}]
    /\ pobs = [i \in {} |-> mk_pob(0, "Q", 0, 0, Dom("Q"))]
    /\ queue = {}
    /\ m_root = 0
    /\ m_max_level = 0
    /\ m_min_depth = 0
    /\ pc = "api"
    /\ verdict = "none"
    /\ cancelled = FALSE
    /\ lastOp = "init"
    /\ lastDeq = <<>>
    /\ pushedSince = FALSE
    /\ prevDeq = <<>>
    /\ prevPushed = FALSE
    /\ prop_lvl = 1
    /\ prop_failed = FALSE
    /\ lastPob = <<>>
    /\ lastMdl = <<>>
    /\ lastCall = <<>>

\* ------------------------------------------------- the level operations
\* next_level, prev_level and pob::inc_level applied in sequence: the first
\* operation takes any level, each later one the result of the one before.

\* operations applied in one sequence
MaxWalk == 3

LInit ==
    /\ walk = <<>>
    /\ SearchIdle
    /\ PoolIdle
    /\ heap = <<>>
    /\ tg = <<>>
    /\ gg = <<>>
    /\ hr = <<>>

\* the levels the next operation can be applied to
LArgs == IF walk = <<>> THEN 0 .. (LevelMod - 1) ELSE {walk[Len(walk)][3]}

LNextLevel ==
    /\ Len(walk) < MaxWalk
    /\ \E l \in LArgs : walk' = Append(walk, <<"next", l, next_level(l)>>)
    /\ UNCHANGED <<searchVars, poolVars, heap, tg, gg, hr>>

LPrevLevel ==
    /\ Len(walk) < MaxWalk
    /\ \E l \in LArgs : walk' = Append(walk, <<"prev", l, prev_level(l)>>)
    /\ UNCHANGED <<searchVars, poolVars, heap, tg, gg, hr>>

\* pob::inc_level on a pob of level l
LIncLevel ==
    /\ Len(walk) < MaxWalk
    /\ \E l \in LArgs :
          walk' = Append(walk, <<"inc_level", l,
                                 (pob_inc_level([level |-> l, depth |-> 0,
                                                 weakness |-> 0])).level>>)
    /\ UNCHANGED <<searchVars, poolVars, heap, tg, gg, hr>>

LNext ==
    \/ LNextLevel
    \/ LPrevLevel
    \/ LIncLevel

LevelSpec == LInit /\ [][LNext]_vars

\* ------------------------------------------- reference-counted objects
\* pobs and lemmas are reference counted (inc_ref, dec_ref).  heap.pob maps
\* a pob id to [state, ref_count, parent, kids]: m_parent is a pob_ref and
\* counts, m_kids holds plain pointers.  heap.lem maps a lemma id to
\* [state, ref_count, pob]: m_pob is a pob_ref and counts.  heap.held and
\* heap.lheld count the references other code holds, heap.queued are the
\* pobs in pob_queue::m_obligations (each a pob_ref), heap.last is the
\* operation applied last.
OIds == {1, 2, 3}

LIds == {1}

\* pob::inc_ref
pob_inc_ref(H, i) == [H EXCEPT !.pob[i].ref_count = @ + 1]

\* pob::dec_ref, with ~pob and the release of m_parent when the count
\* reaches 0
RECURSIVE pob_dec_ref(_, _)
pob_dec_ref(H, i) ==
    IF H.pob[i].ref_count > 1
    THEN [H EXCEPT !.pob[i].ref_count = @ - 1]
    ELSE LET p == H.pob[i].parent
             G == [H EXCEPT !.pob[i].ref_count = 0, !.pob[i].state = "freed"]
         IN  IF p = 0 THEN G
             ELSE pob_dec_ref([G EXCEPT !.pob[p] = erase_child(@, i)], p)

\* lemma::dec_ref, with the release of m_pob when the count reaches 0
lemma_dec_ref(H, l) ==
    IF H.lem[l].ref_count > 1
    THEN [H EXCEPT !.lem[l].ref_count = @ - 1]
    ELSE pob_dec_ref([H EXCEPT !.lem[l].ref_count = 0, !.lem[l].state = "freed"],
                     H.lem[l].pob)

OLive == {i \in OIds : heap.pob[i].state = "live"}

OInit ==
    /\ heap = [pob    |-> [i \in OIds |-> [state |-> "none", ref_count |-> 0,
                                            parent |-> 0, kids |-> {}]],
               lem    |-> [l \in LIds |-> [state |-> "none", ref_count |-> 0, pob |-> 0]],
               held   |-> [i \in OIds |-> 0],
               lheld  |-> [l \in LIds |-> 0],
               queued |-> {},
               last   |-> <<>>]
    /\ walk = <<>>
    /\ tg = <<>>
    /\ gg = <<>>
    /\ hr = <<>>
    /\ SearchIdle
    /\ PoolIdle

OFixed == UNCHANGED <<searchVars, poolVars, walk, tg, gg, hr>>

\* pob::pob with add_to_parent, the new pob held by one reference
OMkPob ==
    /\ \E i \in {j \in OIds : heap.pob[j].state = "none"} :
       \E p \in OLive \cup {0} :
          LET H == [heap EXCEPT !.pob[i] = [state |-> "live", ref_count |-> 1,
                                            parent |-> p, kids |-> {}],
                                !.held[i] = 1,
                                !.last = <<"mk_pob", i, {}>>]
          IN  heap' = IF p = 0 THEN H
                      ELSE pob_inc_ref([H EXCEPT !.pob[p] = add_child(@, i)], p)
    /\ OFixed

\* the last reference other code holds to a pob is dropped
ODrop ==
    /\ \E i \in OLive :
          /\ heap.held[i] > 0
          /\ heap' = pob_dec_ref([heap EXCEPT !.held[i] = @ - 1,
                                              !.last = <<"drop", i, heap.pob[i].kids>>], i)
    /\ OFixed

\* pob_queue::push: the queue takes a reference
OPush ==
    /\ \E i \in OLive \ heap.queued :
          heap' = pob_inc_ref([heap EXCEPT !.queued = @ \cup {i},
                                           !.last = <<"push", i, {}>>], i)
    /\ OFixed

\* pob_queue::pop: the queue gives its reference up
OPop ==
    /\ \E i \in heap.queued :
          heap' = pob_dec_ref([heap EXCEPT !.queued = @ \ {i},
                                           !.last = <<"pop", i, {}>>], i)
    /\ OFixed

\* lemma::lemma(pob_ref const &p), the new lemma held by one reference
OMkLemma ==
    /\ \E l \in {k \in LIds : heap.lem[k].state = "none"} : \E i \in OLive :
          heap' = pob_inc_ref([heap EXCEPT !.lem[l] = [state |-> "live", ref_count |-> 1,
                                                       pob |-> i],
                                           !.lheld[l] = 1,
                                           !.last = <<"mk_lemma", l, {}>>], i)
    /\ OFixed

\* the last reference to a lemma is dropped
ODropLemma ==
    /\ \E l \in LIds :
          /\ heap.lheld[l] > 0
          /\ heap' = lemma_dec_ref([heap EXCEPT !.lheld[l] = @ - 1,
                                                !.last = <<"drop_lemma", l, {}>>], l)
    /\ OFixed

ONext ==
    \/ OMkPob
    \/ ODrop
    \/ OPush
    \/ OPop
    \/ OMkLemma
    \/ ODropLemma

OwnSpec == OInit /\ [][ONext]_vars

\* ---------------------------------------------------------- term graph
\* An expression is a tuple <<decl, arg1, ..., argn>>; an equality is
\* <<"=", a, b>>.  The graph G holds, per internalized expression t, the
\* fields of its term: root (m_root), next (m_next), size (m_class_size),
\* mark (m_mark), parents (m_parents); terms is m_terms, cg is m_cg_table,
\* merge is m_merge, lits is m_lits.  The caches m_term2app and m_pinned
\* are left out.  crashed tells that a call did not return.

Range(s) == {s[i] : i \in 1 .. Len(s)}

\* the uninterpreted constants, in the order of their ids
TGConsts == <<(<<"x">>), (<<"y">>)>>

TGTerms ==
    {TGConsts[1], TGConsts[2],
     <<"g", TGConsts[1], TGConsts[2]>>, <<"g", TGConsts[2], TGConsts[1]>>}

\* two applications of different size
TGApps == {<<"h", TGConsts[1]>>, <<"g", TGConsts[1], TGConsts[2]>>}

\* atoms of an uninterpreted predicate
TGAtoms == {<<"p", TGConsts[1]>>, <<"p", TGConsts[2]>>}

\* the equalities added as literals
TGEqs == {<<"=", a, b>> : a \in Range(TGConsts), b \in Range(TGConsts)}

\* calls made on one graph
MaxOps == 3

\* the outcomes of reading m_parents on after push_back moved it:
\* the old elements are read, or the call does not return
UBOutcomes == {"reads_old", "crash"}

get_args(e) == [i \in 1 .. (Len(e) - 1) |-> e[i + 1]]

get_num_args(e) == Len(e) - 1

\* expr::get_id of a constant
get_id(e) == CHOOSE i \in 1 .. Len(TGConsts) : TGConsts[i] = e

RECURSIVE get_num_exprs(_)
RECURSIVE get_num_exprs_of(_)
get_num_exprs_of(es) ==
    IF es = <<>> THEN 0 ELSE get_num_exprs(Head(es)) + get_num_exprs_of(Tail(es))

get_num_exprs(e) == 1 + get_num_exprs_of(get_args(e))

\* the function f with the value v at e
Ext(f, e, v) == [d \in DOMAIN f \cup {e} |-> IF d = e THEN v ELSE f[d]]

\* term_graph::term_graph
term_graph ==
    [terms |-> <<>>, root |-> <<>>, next |-> <<>>, size |-> <<>>, mark |-> <<>>,
     parents |-> <<>>, cg |-> {}, merge |-> <<>>, lits |-> <<>>, crashed |-> FALSE]

\* term::term: the new term becomes a parent of the root of each child
RECURSIVE add_parents(_, _, _, _)
add_parents(par, root, e, cs) ==
    IF cs = <<>> THEN par
    ELSE add_parents([par EXCEPT ![root[Head(cs)]] = Append(@, e)], root, e, Tail(cs))

\* term_graph::mk_term
mk_term(G, e) ==
    [G EXCEPT !.terms = Append(@, e),
              !.root = Ext(@, e, e),
              !.next = Ext(@, e, e),
              !.size = Ext(@, e, 1),
              !.mark = Ext(@, e, FALSE),
              !.parents = add_parents(Ext(@, e, <<>>), G.root, e, get_args(e))]

\* term_graph::internalize_term: the arguments without a term are made
\* first, the last of them before the others
RECURSIVE internalize_term(_, _)
RECURSIVE internalize_args(_, _)
internalize_args(G, as) ==
    IF as = <<>> THEN G
    ELSE internalize_args(internalize_term(G, as[Len(as)]), SubSeq(as, 1, Len(as) - 1))

internalize_term(G, e) ==
    IF e \in DOMAIN G.root THEN G
    ELSE mk_term(internalize_args(G, get_args(e)), e)

\* term::cg_eq
cg_eq(G, t1, t2) ==
    /\ t1[1] = t2[1]
    /\ Len(t1) = Len(t2)
    /\ \A i \in 2 .. Len(t1) : G.root[t1[i]] = G.root[t2[i]]

\* the entries of m_cg_table that are congruent to p
cg_find(G, p) == {q \in G.cg : cg_eq(G, q, p)}

\* the terms after t on its cyclic next list, at most n of them
RECURSIVE next_list(_, _, _, _)
next_list(G, t, it, n) ==
    IF it = t \/ n = 0 THEN <<>>
    ELSE <<it>> \o next_list(G, t, G.next[it], n - 1)

others(G, t) == next_list(G, t, G.next[t], Len(G.terms))

\* merge, first loop: the unmarked parents of b are marked and leave the
\* congruence table
RECURSIVE erase_parents(_, _)
erase_parents(G, ps) ==
    IF ps = <<>> THEN G
    ELSE LET p == Head(ps)
             q == cg_find(G, p)
         IN  IF G.mark[p] THEN erase_parents(G, Tail(ps))
             ELSE erase_parents(
                      [G EXCEPT !.mark[p] = TRUE,
                                !.cg = IF q = {} THEN @ ELSE @ \ {CHOOSE r \in q : TRUE}],
                      Tail(ps))

merge_eq_class_keeps_size(G, a, b) ==
    [G EXCEPT !.next = [@ EXCEPT ![a] = G.next[b], ![b] = G.next[a]]]

\* term::merge_eq_class
merge_eq_class(G, a, b) ==
    [G EXCEPT !.next = [@ EXCEPT ![a] = G.next[b], ![b] = G.next[a]],
              !.size = [@ EXCEPT ![a] = G.size[a] + G.size[b], ![b] = 0]]

\* merge, last loop: it runs over the parents of a: a marked one enters
\* the congruence table, is unmarked and pushed onto the parents of a, the
\* list the loop is reading.  ub is the outcome of the reads after the push.
RECURSIVE insert_parents(_, _, _, _)
insert_parents(G, a, ps, ub) ==
    IF ps = <<>> THEN G
    ELSE LET p == Head(ps)
             q == cg_find(G, p)
             p_old == IF q = {} THEN p ELSE CHOOSE r \in q : TRUE
             G1 == [G EXCEPT !.cg = @ \cup {p_old},
                             !.mark[p] = FALSE,
                             !.parents[a] = Append(@, p),
                             !.merge = IF G.root[p] # G.root[p_old]
                                       THEN Append(@, <<p, p_old>>) ELSE @]
         IN  IF ~G.mark[p] THEN insert_parents(G, a, Tail(ps), ub)
             ELSE IF ub = "crash" /\ Tail(ps) # <<>> THEN [G1 EXCEPT !.crashed = TRUE]
             ELSE insert_parents(G1, a, Tail(ps), ub)

\* term_graph::merge
merge(G, t1, t2, ub) ==
    LET a0 == G.root[t1]
        b0 == G.root[t2]
        a == IF G.size[a0] > G.size[b0] THEN b0 ELSE a0
        b == IF G.size[a0] > G.size[b0] THEN a0 ELSE b0
        G1 == erase_parents(G, G.parents[b])
        cls == {b} \cup Range(others(G1, b))
        G2 == [G1 EXCEPT !.root = [t \in DOMAIN @ |-> IF t \in cls THEN a ELSE @[t]]]
        G3 == merge_eq_class(G2, a, b)
    IN  IF a0 = b0 THEN G
        ELSE insert_parents(G3, a, G3.parents[a], ub)

\* term_graph::merge_flush
RECURSIVE merge_flush(_, _)
merge_flush(G, ub) ==
    IF G.merge = <<>> \/ G.crashed THEN G
    ELSE LET pr == G.merge[Len(G.merge)]
         IN  merge_flush(merge([G EXCEPT !.merge = SubSeq(@, 1, Len(@) - 1)],
                               pr[1], pr[2], ub), ub)

\* term_graph::internalize_eq; first tells which argument of merge is
\* evaluated first
internalize_eq(G, a1, a2, first, ub) ==
    LET G1 == IF first = 1
              THEN internalize_term(internalize_term(G, a1), a2)
              ELSE internalize_term(internalize_term(G, a2), a1)
    IN  merge_flush(merge(G1, a1, a2, ub), ub)

\* term_graph::internalize_lit
internalize_lit(G, lit, first, ub) ==
    IF lit[1] = "=" THEN internalize_eq(G, lit[2], lit[3], first, ub)
    ELSE internalize_term(G, lit)

\* term_graph::add_lit; no solve plugin is registered for the family of an
\* uninterpreted atom or of an equality over an uninterpreted sort
add_lit(G, l, first, ub) ==
    internalize_lit([G EXCEPT !.lits = Append(@, l)], l, first, ub)

\* ast_manager::is_value: the vocabulary has no values
is_value(e) == FALSE

\* term_graph::term_lt
term_lt(t1, t2) ==
    IF get_num_args(t1) = 0 \/ get_num_args(t2) = 0
    THEN IF get_num_args(t1) = get_num_args(t2)
         THEN IF is_value(t1) = is_value(t2) THEN get_id(t1) < get_id(t2)
              ELSE is_value(t2)
         ELSE get_num_args(t1) < get_num_args(t2)
    ELSE get_num_exprs(t1) < get_num_exprs(t1)

\* term::mk_root
mk_root(G, r) ==
    LET cls == {r} \cup Range(others(G, r))
        old == {t \in cls : G.root[t] = t}
    IN  IF G.root[r] = r THEN G
        ELSE [G EXCEPT !.root = [t \in DOMAIN @ |-> IF t \in cls THEN r ELSE @[t]],
                       !.size = [t \in DOMAIN @ |->
                                    IF t = r /\ old # {} THEN G.size[CHOOSE o \in old : TRUE]
                                    ELSE IF t \in old THEN 0
                                    ELSE @[t]]]

\* the term pick_root prefers among the terms its of the class of r
RECURSIVE best_root(_, _)
best_root(r, its) ==
    IF its = <<>> THEN r
    ELSE best_root(IF term_lt(Head(its), r) THEN Head(its) ELSE r, Tail(its))

\* term_graph::pick_root
pick_root(G, t) ==
    LET its == others(G, t)
        r == best_root(t, its)
        G1 == [G EXCEPT !.mark = [u \in DOMAIN @ |-> IF u \in Range(its) THEN TRUE ELSE @[u]]]
    IN  IF r # t THEN mk_root(G1, r) ELSE G1

\* term_graph::reset_marks
reset_marks(G) == [G EXCEPT !.mark = [u \in DOMAIN @ |-> FALSE]]

\* term_graph::pick_roots
RECURSIVE pick_roots_from(_, _)
pick_roots_from(G, ts) ==
    IF ts = <<>> THEN G
    ELSE pick_roots_from(IF ~G.mark[Head(ts)] /\ G.root[Head(ts)] = Head(ts)
                         THEN pick_root(G, Head(ts)) ELSE G,
                         Tail(ts))

pick_roots(G) == reset_marks(pick_roots_from(G, G.terms))

\* ---- projection
\* is_variable_proc is [exclude, decls]; m_solved stays empty, because no
\* solve plugin handles the literals of this vocabulary.

\* term_graph::is_variable_proc::reset
is_var_reset == [exclude |-> TRUE, decls |-> {}]

\* term_graph::is_variable_proc::set_decls
set_decls(decls, exclude) == [exclude |-> exclude, decls |-> decls]

\* term_graph::is_variable_proc::operator()(const term &): every term of
\* this vocabulary is uninterpreted
is_variable_proc(iv, t) == iv.exclude = (t[1] \in iv.decls)

\* f without its value at e
Without(f, e) == [d \in DOMAIN f \ {e} |-> f[d]]

\* projector::mk_pure on a term without an entry in m_term2app: the
\* application of its declaration to the representatives of the roots of
\* its children, or <<>> if one of them has none
mk_pure(G, P, t) ==
    IF \A i \in 2 .. Len(t) : G.root[t[i]] \in DOMAIN P.root2rep
    THEN [i \in 1 .. Len(t) |-> IF i = 1 THEN t[1] ELSE P.root2rep[G.root[t[i]]]]
    ELSE <<>>

\* projector::purify, the loop over the parents of a root that got a representative
RECURSIVE requeue_parents(_, _)
requeue_parents(P, ps) ==
    IF ps = <<>> THEN P
    ELSE LET p == Head(ps)
             P1 == [P EXCEPT !.term2app = IF p \in DOMAIN @ THEN Without(@, p) ELSE @]
         IN  requeue_parents(
                 IF P1.mark[p] THEN P1
                 ELSE [P1 EXCEPT !.mark[p] = TRUE, !.worklist = Append(@, p)],
                 Tail(ps))

\* projector::purify, the work-list loop; iv is m_is_var as the loop finds it
RECURSIVE purify_loop(_, _, _)
purify_loop(G, iv, P) ==
    IF P.worklist = <<>> THEN P
    ELSE LET t == P.worklist[Len(P.worklist)]
             P1 == [P EXCEPT !.worklist = SubSeq(@, 1, Len(@) - 1), !.mark[t] = FALSE]
             pure == mk_pure(G, P1, t)
             P2 == [P1 EXCEPT !.term2app = Ext(@, t, pure)]
             r == G.root[t]
         IN  IF t \in DOMAIN P1.term2app THEN purify_loop(G, iv, P1)
             ELSE IF is_variable_proc(iv, t) THEN purify_loop(G, iv, P1)
             ELSE IF pure = <<>> THEN purify_loop(G, iv, P1)
             ELSE IF r \in DOMAIN P2.root2rep THEN purify_loop(G, iv, P2)
             ELSE purify_loop(G, iv,
                      requeue_parents([P2 EXCEPT !.root2rep = Ext(@, r, pure)],
                                      G.parents[r]))

\* projector::purify
purify(G, iv) ==
    purify_loop(G, iv, [worklist |-> G.terms,
                        mark     |-> [t \in DOMAIN G.root |-> TRUE],
                        term2app |-> <<>>,
                        root2rep |-> <<>>])

\* projector::mk_lits
RECURSIVE mk_lits(_, _, _)
mk_lits(G, P, lits) ==
    IF lits = <<>> THEN <<>>
    ELSE (IF Head(lits)[1] # "=" /\ G.root[Head(lits)] \in DOMAIN P.root2rep
          THEN <<P.root2rep[G.root[Head(lits)]]>> ELSE <<>>)
         \o mk_lits(G, P, Tail(lits))

\* projector::mk_pure_equalities of the class of the root t with the
\* representative rep: rs are the terms of the class still to visit
RECURSIVE mk_pure_equalities_of(_, _, _, _)
mk_pure_equalities_of(P, rep, members, rs) ==
    IF rs = <<>> THEN <<>>
    ELSE LET r == Head(rs)
             has == r \in DOMAIN P.term2app /\ P.term2app[r] \notin members
         IN  (IF has THEN <<(<<"=", rep, P.term2app[r]>>)>> ELSE <<>>)
             \o mk_pure_equalities_of(P, rep,
                    IF has THEN members \cup {P.term2app[r]} ELSE members, Tail(rs))

\* projector::mk_equalities(true, res)
RECURSIVE mk_pure_equalities(_, _, _)
mk_pure_equalities(G, P, ts) ==
    IF ts = <<>> THEN <<>>
    ELSE LET t == Head(ts)
         IN  (IF G.root[t] = t /\ t \in DOMAIN P.root2rep
              THEN mk_pure_equalities_of(P, P.root2rep[t], {P.root2rep[t]},
                                         <<t>> \o others(G, t))
              ELSE <<>>)
             \o mk_pure_equalities(G, P, Tail(ts))

\* term_graph::project: set_decls, solve_for_vars (without effect on this
\* vocabulary), then m_is_var.reset() and only then projector::project
project(G, decls, exclude) ==
    LET iv0 == set_decls(decls, exclude)
        iv == is_var_reset
        P == purify(G, iv)
    IN  mk_lits(G, P, G.lits) \o mk_pure_equalities(G, P, G.terms)

\* the declarations an expression mentions, equality apart
RECURSIVE Symbols(_)
Symbols(e) ==
    (IF e[1] = "=" THEN {} ELSE {e[1]})
    \cup UNION {Symbols(e[i]) : i \in 2 .. Len(e)}

\* ---- a term graph under a sequence of calls
TInit ==
    /\ tg = [graph |-> term_graph, ops |-> 0, op |-> "none", out |-> <<>>]
    /\ gg = <<>>
    /\ hr = <<>>
    /\ walk = <<>>
    /\ heap = <<>>
    /\ SearchIdle
    /\ PoolIdle

TFixed == UNCHANGED <<searchVars, poolVars, walk, heap, gg, hr>>

TCanCall == tg.ops < MaxOps /\ ~tg.graph.crashed

\* term_graph::add_lit
TAddLit ==
    /\ TCanCall
    /\ \E l \in TGAtoms \cup TGEqs : \E first \in {1, 2} : \E ub \in UBOutcomes :
          tg' = [graph |-> add_lit(tg.graph, l, first, ub), ops |-> tg.ops + 1,
                 op |-> "add_lit", out |-> <<>>]
    /\ TFixed

\* term_graph::add_eq
TAddEq ==
    /\ TCanCall
    /\ \E a \in TGTerms : \E b \in TGTerms : \E first \in {1, 2} : \E ub \in UBOutcomes :
          tg' = [graph |-> internalize_eq(tg.graph, a, b, first, ub), ops |-> tg.ops + 1,
                 op |-> "add_eq", out |-> <<>>]
    /\ TFixed

\* term_graph::add_eq of two applications
TAddEqApps ==
    /\ TCanCall
    /\ \E a \in TGApps : \E b \in TGApps \ {a} : \E first \in {1, 2} : \E ub \in UBOutcomes :
          tg' = [graph |-> internalize_eq(tg.graph, a, b, first, ub), ops |-> tg.ops + 1,
                 op |-> "add_eq", out |-> <<>>]
    /\ TFixed

\* term_graph::to_lits
TToLits ==
    /\ TCanCall
    /\ tg' = [graph |-> pick_roots(tg.graph), ops |-> tg.ops + 1, op |-> "to_lits",
              out |-> <<>>]
    /\ TFixed

\* term_graph::project(decls, exclude)
TProject ==
    /\ TCanCall
    /\ \E decls \in {{"x"}, {"g"}} : \E exclude \in BOOLEAN :
          tg' = [graph |-> reset_marks(tg.graph), ops |-> tg.ops + 1, op |-> "project",
                 out |-> [decls |-> decls, exclude |-> exclude,
                          lits |-> project(tg.graph, decls, exclude)]]
    /\ TFixed

TNext ==
    \/ TAddLit
    \/ TAddEq
    \/ TAddEqApps
    \/ TToLits
    \/ TProject

TermGraphSpec == TInit /\ [][TNext]_vars

\* ------------------------------------------------- reference semantics
\* The states of P derivable from the rules, as a least fixpoint.
RECURSIVE Derive(_)
Derive(S) ==
    LET T == S \cup {t[3] : t \in {u \in Trans("P") : u[2] \in S}}
    IN  IF T = S THEN S ELSE Derive(T)

Derivable(R) ==
    IF R = "P" THEN Derive(InitFacts("P"))
    ELSE {t[3] : t \in {u \in Trans("Q") : u[2] \in Derive(InitFacts("P"))}}

QueryDerivable == Derivable("Q") # {}

\* frame(R, k) as the design defines it: the states allowed by every active
\* lemma whose recorded level is at least k
FrameOf(R, k) ==
    {s \in Dom(R) : \A l \in lemmas[R] : (l.active /\ l.lvl >= k) => s \notin l.cube}

\* the states allowed by the infinity-level lemmas of R
InvStates(R) ==
    {s \in Dom(R) : \A l \in lemmas[R] :
        (l.active /\ l.lvl = 2 ^ LevelWidth - 1) => s \notin l.cube}

InvariantInductive ==
    \A R \in Rels :
        /\ InitFacts(R) \subseteq InvStates(R)
        /\ \A t \in Trans(R) : t[2] \in InvStates(t[1]) => t[3] \in InvStates(R)

\* ---------------------------------------------------------------- claims

\* C1: when solve ends unsat the query is not derivable and the
\* infinity-level lemmas form an inductive invariant that excludes the
\* query; when it ends sat the query is derivable and every reachability
\* fact is a derivable state.
C1_VerdictCorrect ==
    /\ verdict = "unsat" =>
          /\ ~QueryDerivable
          /\ InvariantInductive
          /\ InvStates("Q") = {}
    /\ verdict = "sat" =>
          /\ QueryDerivable
          /\ reach["Q"] # {}
          /\ \A R \in Rels : reach[R] \subseteq Derivable(R)

C1_Witness ==
    /\ verdict = "unsat"
    /\ m_max_level >= 2
    /\ InitFacts("P") # {}
    /\ \E l \in lemmas["P"] : l.active /\ l.lvl = infty_level

\* C2: every committed lemma is inductive up to its level: no rule without
\* body atoms derives a state of its cube, and for a level above 0 no rule
\* leads from frame(level-1) of the body relation into its cube.
C2_LemmaSound ==
    \A R \in Rels : \A l \in lemmas[R] :
        /\ InitFacts(R) \cap l.cube = {}
        /\ l.lvl > 0 =>
              \A t \in Trans(R) :
                  t[2] \in FrameOf(t[1], IF l.lvl = 2 ^ LevelWidth - 1
                                         THEN l.lvl ELSE l.lvl - 1)
                      => t[3] \notin l.cube

C2_Witness ==
    \E l \in lemmas["P"] : \E l2 \in lemmas["P"] :
        /\ l.active /\ l.lvl = 2 /\ l.cube # {}
        /\ l2.active /\ l2.lvl = 1 /\ ~(l2.cube \subseteq l.cube)

\* C3: an oracle answer of unknown ends the search with verdict unknown: the
\* step that takes the answer learns no lemma and no reachability fact and
\* closes no pob, and a verdict of unknown is never replaced.
C3_UnknownNotCoerced ==
    [][/\ lastOp' = "unknown" =>
             /\ verdict' = "unknown"
             /\ pc' = "done"
             /\ lemmas' = lemmas
             /\ reach' = reach
             /\ \A i \in DOMAIN pobs :
                   i \in DOMAIN pobs' /\ pobs'[i].open = pobs[i].open
       /\ verdict = "unknown" => verdict' = "unknown"]_vars

\* the oracle answered unknown on the first query of the run
C3_Witness ==
    /\ lastOp = "unknown"
    /\ verdict = "unknown"
    /\ lastDeq = <<>>
    /\ m_max_level = 0

\* C4: when the cancellation is raised and the loop is at the checkpoint of
\* a queue iteration, the step of the search ends it with verdict unknown;
\* the verdict of a search ended by the checkpoint stays unknown.
C4_CancelUnknown ==
    [][/\ (cancelled /\ pc = "search") => (verdict' = "unknown" /\ pc' = "done")
       /\ lastOp = "abort" => verdict' = "unknown"]_vars

C4_Witness ==
    /\ lastOp = "abort"
    /\ verdict = "unknown"
    /\ cancelled
    /\ m_max_level >= 1

\* after the pass of context::propagate no active lemma is left at a level
\* in [1, ceiling]: no lemma failed to propagate
NoLemmaBehind ==
    \A R \in Rels : \A l \in lemmas[R] :
        l.active => ~(1 <= l.lvl /\ l.lvl <= m_max_level)

\* C5: when the propagation over the levels [1, L] of the ceiling L is over
\* and no lemma failed to propagate, the search ends with verdict unsat in
\* that iteration; after the verdict the ceiling is not raised again.
C5_FixpointHalts ==
    [][/\ (/\ pc = "propagate"
           /\ m_max_level > 0
           /\ prop_lvl > m_max_level
           /\ NoLemmaBehind
           /\ cancelled' = cancelled)
          => (verdict' = "unsat" /\ pc' = "done" /\ m_max_level' = m_max_level)
       /\ verdict = "unsat" =>
             (verdict' = "unsat" /\ pc' = "done" /\ m_max_level' = m_max_level)]_vars

C5_Witness ==
    /\ lastOp = "fixpoint"
    /\ verdict = "unsat"
    /\ m_max_level >= 2
    /\ \E R \in Rels : \E l \in lemmas[R] : l.active /\ is_infty_level(l.lvl)

\* C7 as stated: each dequeued pob has a (level, depth) pair that is not
\* less than the pair of the pob dequeued just before it.
C7_DequeueNonDecreasing ==
    prevDeq # <<>> => KeyLeq(prevDeq, lastDeq)

\* C7 as amended: of two pobs dequeued one after the other with no push on
\* the queue in between, the second has a (level, depth) pair that is not
\* less than the pair of the first.
C7_DequeueNonDecreasingNoPush ==
    (prevDeq # <<>> /\ ~prevPushed) => KeyLeq(prevDeq, lastDeq)

C7_Witness ==
    /\ prevDeq # <<>>
    /\ ~prevPushed
    /\ prevDeq # lastDeq
    /\ lastOp \in {"blocked", "reachable", "children"}

\* C8: whenever the queue is not empty, the pob at its top has the least
\* level of the queued pobs and the least depth of the queued pobs of that
\* level.
C8_QueuePriority ==
    queue # {} =>
        /\ queue_tops(pobs, queue) # {}
        /\ \A t \in queue_tops(pobs, queue) : \A j \in queue :
              /\ pobs[t].level <= pobs[j].level
              /\ pobs[t].level = pobs[j].level => pobs[t].depth <= pobs[j].depth

C8_Witness ==
    /\ Cardinality(queue) >= 3
    /\ \E t \in queue_tops(pobs, queue) : \E j \in queue :
          pobs[t].level < pobs[j].level /\ pobs[t].depth > pobs[j].depth

\* C6: under add_lemma, propagate_to_next_level, propagate_to_infinity and
\* inherit_frames the recorded level of a lemma never decreases, and a lemma
\* at the infinity level stays there.
C6_LevelMonotone ==
    [][\A R \in Rels : \A l \in lemmas[R] :
          \E l2 \in lemmas'[R] :
              /\ l2.cube = l.cube
              /\ l2.lvl >= l.lvl
              /\ is_infty_level(l.lvl) => is_infty_level(l2.lvl)]_vars

\* an inherited lemma raised a recorded lemma, next to an invariant
C6_Witness ==
    /\ lastOp \in {"inherit_frames", "propagate_to_next_level"}
    /\ \E l \in lemmas["P"] : l.active /\ is_infty_level(l.lvl)
    /\ \E l \in lemmas["P"] : l.active /\ 1 < l.lvl /\ l.lvl <= MaxLevel
    /\ \E l \in lemmas["P"] : ~l.active

C10_ClosedStaysClosed ==
    [][\A i \in DOMAIN pobs :
          (i \in DOMAIN pobs' /\ ~pobs[i].open) => ~pobs'[i].open]_vars

\* C10 as amended: a pob goes from open to closed only by close, and a
\* closed pob stays closed under every operation but reset, which leaves the
\* pob it is called on open and without derivation.
C10_ReopenedOnlyByReset ==
    [][/\ \A i \in DOMAIN pobs :
             i \in DOMAIN pobs' =>
                /\ (pobs[i].open /\ ~pobs'[i].open) => lastOp' = "close"
                /\ (~pobs[i].open /\ pobs'[i].open) => lastOp' = "reset"
       /\ lastOp' = "reset" =>
             \E i \in DOMAIN pobs :
                /\ lastPob' = pobs[i]
                /\ pobs' = [pobs EXCEPT ![i] =
                               [@ EXCEPT !.open = TRUE, !.derivation = FALSE]]]_vars

\* reset was called on a closed pob
C10_Witness ==
    /\ lastOp = "reset"
    /\ lastPob # <<>>
    /\ ~lastPob.open
    /\ \E i \in DOMAIN pobs : pobs[i] = [lastPob EXCEPT !.open = TRUE]

\* the pob has a child that exists and is open
HasOpenChild(PB, i) ==
    \E k \in PB[i].kids : k \in DOMAIN PB /\ PB[k].open

\* C11: a pob whose expansion spawns a child stays open and is put back in
\* the queue with the child; no pob is dequeued while a child of it is in
\* the queue; no pob with an open child is closed as reachable.
C11_ParentBehindChildren ==
    [][/\ lastOp' = "children" =>
             \E i \in queue :
                /\ i \in queue'
                /\ pobs'[i].open
                /\ pobs'[i].kids # pobs[i].kids
                /\ pobs[i].kids \cap queue = {}
                /\ pobs'[i].kids \subseteq queue'
                /\ i \notin queue_tops(pobs', queue')
       /\ lastOp' \in {"blocked", "reachable"} =>
             \A i \in queue \ queue' :
                /\ pobs[i].kids \cap queue = {}
                /\ ~HasOpenChild(pobs, i)
       /\ \A t \in queue_tops(pobs', queue') : pobs'[t].kids \cap queue' = {}]_vars

\* the root was closed as reachable after its child was
C11_Witness ==
    /\ lastOp = "reachable"
    /\ verdict = "sat"
    /\ reach["P"] # {}
    /\ m_max_level >= 2
    /\ prevDeq # <<>>
    /\ prevDeq[1] < lastDeq[1]

\* C12: every pob made for a derivation lies one level below its parent, has
\* the parent as its parent link, and is in the child list of the parent for
\* as long as it exists.
C12_ChildLinks ==
    \A k \in DOMAIN pobs :
        pobs[k].parent # 0 =>
            /\ pobs[k].parent \in DOMAIN pobs
            /\ pobs[k].level = pobs[pobs[k].parent].level - 1
            /\ k \in pobs[pobs[k].parent].kids

\* a chain of a pob, its child and the child of the child
C12_Witness ==
    \E k \in DOMAIN pobs : \E j \in DOMAIN pobs :
        /\ pobs[k].parent = j
        /\ pobs[j].parent = m_root
        /\ pobs[k].level = 0
        /\ pobs[m_root].level = 2

\* the pob made by the last derivation: the pob at the end of the chain of
\* children
LastChild(k) ==
    /\ k \in DOMAIN pobs
    /\ pobs[k].parent # 0
    /\ pobs[k].kids = {}

AllLevels == 0 .. infty_level

\* C14: the frame of a relation at level L holds exactly the active lemmas
\* recorded at a level that is not below L; the active infinity-level lemmas
\* are in every frame, and for levels i < j every lemma of frame(j) is a
\* lemma of frame(i).
C14_FrameQuery ==
    \A R \in Rels : \A L \in AllLevels :
        LET frame(k) == get_frame_geq_lemmas(lemmas[R], k)
        IN  /\ frame(L) \subseteq lemmas[R]
            /\ \A l \in lemmas[R] : (l \in frame(L)) <=> (l.active /\ ~(l.lvl < L))
            /\ \A l \in lemmas[R] : (l.active /\ is_infty_level(l.lvl)) => l \in frame(L)
            /\ \A j \in AllLevels : L < j => frame(j) \subseteq frame(L)

\* frames that differ: an invariant, a lemma at a finite level and a
\* subsumed lemma
C14_Witness ==
    /\ \E l \in lemmas["P"] : l.active /\ is_infty_level(l.lvl)
    /\ \E l \in lemmas["P"] : l.active /\ l.lvl = 2
    /\ \E l \in lemmas["P"] : ~l.active
    /\ get_frame_geq_lemmas(lemmas["P"], 3) # get_frame_geq_lemmas(lemmas["P"], 1)
    /\ get_frame_geq_lemmas(lemmas["P"], infty_level) # {}

\* the lemma with the given cube of relation R is inductive one level above
\* lvl: no rule without body atoms derives a state of the cube, and no rule
\* leads from frame(lvl) of its body relation into the cube
ProvedAbove(R, cube, lvl) ==
    /\ InitFacts(R) \cap cube = {}
    /\ \A t \in Trans(R) : t[2] \in FrameOf(t[1], lvl) => t[3] \notin cube

\* C15: propagate_to_next_level at a finite level moves to level + 1 exactly
\* the active lemmas at that level that are inductive at level + 1, leaves
\* every other lemma as it is, and returns true if and only if some active
\* lemma at the level is not inductive at level + 1.
C15_PropagateNext ==
    [][(lastOp' = "propagate_to_next_level" /\ ~is_infty_level(prop_lvl')) =>
          LET lvl == prop_lvl'
              at(l) == l.active /\ l.lvl = lvl
              moved(l) == at(l) /\ ProvedAbove("P", l.cube, lvl)
          IN  /\ lemmas'["P"] =
                    {IF moved(l) THEN [l EXCEPT !.lvl = lvl + 1] ELSE l :
                        l \in lemmas["P"]}
              /\ prop_failed' = (\E l \in lemmas["P"] : at(l) /\ ~moved(l))
              /\ lemmas'["Q"] = lemmas["Q"]]_vars

\* a call that moved a lemma and left another behind
C15_Witness ==
    /\ lastOp = "propagate_to_next_level"
    /\ prop_failed
    /\ prop_lvl >= 1
    /\ ~is_infty_level(prop_lvl)
    /\ \E l \in lemmas["P"] : l.active /\ l.lvl = prop_lvl
    /\ \E l \in lemmas["P"] :
          l.active /\ l.lvl = prop_lvl + 1 /\ ProvedAbove("P", l.cube, prop_lvl)

\* C16: add_lemma returns false and leaves the frame set as it is when an
\* active lemma that blocks at least the states of the new one is recorded
\* at a level that is not below the given level; otherwise it returns true,
\* the lemma is recorded active at the given level, and the weaker active
\* lemmas at that level are no longer active.
C16_AddLemma ==
    [][lastOp' = "add_lemma" =>
          LET c == lastCall'.cube
              lv == lastCall'.lvl
              F == lemmas["P"]
              G == lemmas'["P"]
              covered == \E l \in F : l.active /\ c \subseteq l.cube /\ ~(l.lvl < lv)
          IN  IF covered
              THEN ~lastCall'.ret /\ G = F
              ELSE /\ lastCall'.ret
                   /\ G # F
                   /\ [cube |-> c, lvl |-> lv, active |-> TRUE] \in G
                   /\ \A l \in F :
                         (l.active /\ l.lvl = lv /\ l.cube \subseteq c /\ l.cube # c)
                            => [l EXCEPT !.active = FALSE] \in G /\ l \notin G]_vars

\* a call that subsumed a weaker lemma at its level
C16_Witness ==
    /\ lastOp = "add_lemma"
    /\ lastCall # <<>>
    /\ lastCall.ret
    /\ lastCall.lvl >= 1
    /\ \E l \in lemmas["P"] :
          ~l.active /\ l.lvl = lastCall.lvl /\ l.cube \subseteq lastCall.cube
    /\ \E l \in lemmas["P"] : l.active /\ l.lvl > lastCall.lvl

\* Scenario A with its constant 10 scaled to the greatest value N of the
\* model:  -> P(0),  P(x) & x < N -> P(x+1),  P(x) & x >= N -> Query()
ScenarioA == [init |-> 1, bound |-> MaxVal, bad |-> MaxVal]

\* C17 as stated: on Scenario A a search that ends with a definite verdict
\* ends unsat.
C17_ScenarioAUnsat ==
    (sys = ScenarioA /\ pc = "done" /\ verdict # "unknown") => verdict = "unsat"

\* C17 as amended: on Scenario A the search never ends unsat; Query() is
\* derivable from P(N); a search that ends with a definite verdict ends sat,
\* at the level ceiling N + 1; P(x) => x <= N holds of every derivable P
\* fact and P(N) is derivable.
C17_ScenarioASat ==
    sys = ScenarioA =>
        /\ verdict # "unsat"
        /\ QueryDerivable
        /\ Derivable("P") = 0 .. MaxVal
        /\ (pc = "done" /\ verdict # "unknown") =>
              /\ verdict = "sat"
              /\ m_max_level = MaxVal + 1
              /\ reach["Q"] # {}
              /\ MaxVal \in reach["P"]

C17_Witness ==
    /\ sys = ScenarioA
    /\ pc = "done"
    /\ verdict = "sat"
    /\ reach["P"] = 0 .. MaxVal

\* Scenario B with the constant 10 scaled to N = MaxVal - 1 and the relaxed
\* bound reaching the end of the value range:
\*     -> P(0),  P(x) & x <= MaxVal - 1 -> P(x+1),  P(x) & x >= N -> Query()
ScenarioB == [init |-> 1, bound |-> MaxVal, bad |-> MaxVal - 1]

\* the P facts of the ground derivations of at most d rule applications
\* above a fact of a rule without body atoms, built from reachability facts
RECURSIVE GroundP(_)
GroundP(d) ==
    IF d = 0 THEN InitFacts("P") \cap reach["P"]
    ELSE GroundP(d - 1) \cup
         {t[3] : t \in {u \in Trans("P") :
                           u[2] \in GroundP(d - 1) /\ u[3] \in reach["P"]}}

\* the depth of the ground derivation of Query() reconstructed from the
\* reachability facts: the number of rule applications above the initial
\* fact; 0 when there is none
DerivationDepth ==
    LET ds == {d \in 1 .. (MaxVal + 2) :
                  \E t \in Trans("Q") : t[2] \in GroundP(d - 1) /\ reach["Q"] # {}}
    IN  IF ds = {} THEN 0 ELSE CHOOSE d \in ds : \A e \in ds : d <= e

\* C18: on Scenario B the search never ends unsat, and a search that ends
\* with a definite verdict ends sat with a ground derivation of Query() of
\* depth N + 1 (11 for N = 10), found at the level ceiling N + 1.
C18_ScenarioBSat ==
    sys = ScenarioB =>
        /\ verdict # "unsat"
        /\ (pc = "done" /\ verdict # "unknown") =>
              /\ verdict = "sat"
              /\ DerivationDepth = (MaxVal - 1) + 1
              /\ m_max_level = (MaxVal - 1) + 1

C18_Witness ==
    /\ sys = ScenarioB
    /\ pc = "done"
    /\ verdict = "sat"
    /\ DerivationDepth = MaxVal
    /\ reach["P"] = 0 .. (MaxVal - 1)

\* C19: a manager made with max_num_contexts = N > 0 never holds more than
\* N factories, and once it holds N a call of mk_fresh makes no factory:
\* the pool keeps its size and the call takes a solver from one of the N
\* factories, leaving the others as they were.
C19_BoundedPool ==
    /\ [](manager.m_max_num_contexts > 0 =>
              Len(manager.m_solvers) <= manager.m_max_num_contexts)
    /\ [][(manager.m_max_num_contexts > 0 /\
           Len(manager.m_solvers) = manager.m_max_num_contexts) =>
              /\ Len(manager'.m_solvers) = Len(manager.m_solvers)
              /\ ~served'.created
              /\ served'.index \in 0 .. (manager.m_max_num_contexts - 1)
              /\ \A j \in 1 .. Len(manager.m_solvers) :
                    manager'.m_solvers[j] =
                        IF j = served'.index + 1
                        THEN mk_solver(manager.m_solvers[j])
                        ELSE manager.m_solvers[j]]_vars

C19_Witness ==
    /\ manager # <<>>
    /\ manager.m_max_num_contexts >= 2
    /\ Len(manager.m_solvers) = manager.m_max_num_contexts
    /\ served.calls > manager.m_max_num_contexts + 1
    /\ ~served.created

\* the number of times the factory j occurs in the sequence g
Uses(g, j) == Cardinality({n \in 1 .. Len(g) : g[n] = j})

\* C20: with max_num_contexts = N > 0 the k-th call of mk_fresh is served
\* by the factory at index (k-1) mod N, and between two consecutive uses of
\* one factory every other factory is used exactly once.
C20_RoundRobin ==
    (manager # <<>> /\ manager.m_max_num_contexts > 0 /\ served.calls >= 1) =>
        /\ served.index = (served.calls - 1) % manager.m_max_num_contexts
        /\ ~served.first =>
              \A j \in (0 .. (manager.m_max_num_contexts - 1)) \ {served.index} :
                  Uses(served.gap, j) = 1

\* C21: every factory of the pool backs at most one solver that was handed
\* out by mk_fresh and not yet given back.
C21_NeverShared ==
    outstanding # <<>> => \A j \in 1 .. Len(outstanding) : outstanding[j] <= 1

\* the solvers of the factory j (from 1) that are outstanding in o
OutOf(o, j) == IF j <= Len(o) THEN o[j] ELSE 0

\* C21 amended: mk_fresh keeps no record of the solvers it handed out.  A
\* call on a full pool of N > 0 factories takes the factory the wrapped call
\* counter names, whether or not solvers of that factory are outstanding,
\* and adds one to them; a factory never backs more solvers than it made.
C21_HandedOutByCount ==
    /\ [](outstanding # <<>> =>
            \A j \in 1 .. Len(outstanding) : outstanding[j] <= manager.m_solvers[j])
    /\ [][(/\ served'.calls # served.calls
           /\ manager.m_max_num_contexts > 0
           /\ Len(manager.m_solvers) = manager.m_max_num_contexts) =>
              LET i == ((manager'.m_num_contexts - 1) % CounterMod)
                           % manager.m_max_num_contexts
              IN  /\ served'.index = i
                  /\ Len(outstanding') = Len(outstanding)
                  /\ \A j \in 1 .. Len(outstanding') :
                        outstanding'[j] =
                            OutOf(outstanding, j) + (IF j = i + 1 THEN 1 ELSE 0)]_vars

C21_Witness ==
    /\ manager # <<>>
    /\ manager.m_max_num_contexts >= 2
    /\ served.calls > manager.m_max_num_contexts
    /\ ~served.created
    /\ outstanding[served.index + 1] = 2

\* every operation of the walk gives the result the level arithmetic
\* names: next_level(infinity) = infinity, next_level(l) = l + 1 for a
\* finite l, prev_level(0) = 0, prev_level(infinity) = infinity and
\* prev_level(l) = l - 1 for a finite l > 0
StepsRight ==
    \A n \in 1 .. Len(walk) :
        LET op == walk[n][1]
            l == walk[n][2]
            r == walk[n][3]
        IN  /\ (op = "next" /\ l = infty_level) => r = infty_level
            /\ (op = "next" /\ l # infty_level) => r = l + 1
            /\ (op = "prev" /\ l = 0) => r = 0
            /\ (op = "prev" /\ l = infty_level) => r = infty_level
            /\ (op = "prev" /\ l # infty_level /\ l > 0) => r = l - 1

LiveKids(i) == {c \in OIds : heap.pob[c].state = "live" /\ heap.pob[c].parent = i}

LiveLemmas(i) == {l \in LIds : heap.lem[l].state = "live" /\ heap.lem[l].pob = i}

\* C23 as stated: once the last outside reference to a pob is dropped, the
\* pob and each of its children that the queue does not retain are freed;
\* and no pob is kept alive by lemmas alone.
C23_ParentOwnsChildren ==
    heap # <<>> =>
        /\ (heap.last # <<>> /\ heap.last[1] = "drop" /\ heap.held[heap.last[2]] = 0) =>
              /\ heap.pob[heap.last[2]].state = "freed"
              /\ \A c \in heap.last[3] \ heap.queued : heap.pob[c].state = "freed"
        /\ \A i \in OIds :
              (heap.pob[i].state = "live" /\ LiveLemmas(i) # {}) =>
                  \/ heap.held[i] > 0
                  \/ i \in heap.queued
                  \/ heap.pob[i].parent # 0

\* C23 amended: the references are counted and point from child to parent.
\* A live pob has as many references as there are holders, queue entries,
\* live children and live lemmas that refer to it; the parent of a live
\* pob and the pob of a live lemma are live; m_kids of a live pob are
\* exactly its live children; and dropping the last outside reference to a
\* pob frees it only if no queue entry, child or lemma refers to it, and
\* frees none of its children.
C23_CountedFromChildToParent ==
    heap # <<>> =>
        /\ \A i \in OIds :
              /\ heap.pob[i].state = "live" =>
                    /\ heap.pob[i].ref_count > 0
                    /\ heap.pob[i].ref_count =
                          heap.held[i] + (IF i \in heap.queued THEN 1 ELSE 0)
                          + Cardinality(LiveKids(i)) + Cardinality(LiveLemmas(i))
                    /\ heap.pob[i].kids = LiveKids(i)
                    /\ heap.pob[i].parent # 0 => heap.pob[heap.pob[i].parent].state = "live"
              /\ heap.pob[i].state # "live" =>
                    /\ heap.held[i] = 0
                    /\ i \notin heap.queued
                    /\ LiveKids(i) = {}
                    /\ LiveLemmas(i) = {}
        /\ \A l \in LIds :
              heap.lem[l].state = "live" => heap.pob[heap.lem[l].pob].state = "live"
        /\ (heap.last # <<>> /\ heap.last[1] = "drop" /\ heap.held[heap.last[2]] = 0) =>
              /\ \A c \in heap.last[3] : heap.pob[c].state = "live"
              /\ heap.pob[heap.last[2]].state = "freed" <=>
                    /\ heap.last[2] \notin heap.queued
                    /\ LiveKids(heap.last[2]) = {}
                    /\ LiveLemmas(heap.last[2]) = {}

C23_Witness ==
    /\ heap # <<>>
    /\ heap.last # <<>>
    /\ heap.last[1] = "drop"
    /\ heap.held[heap.last[2]] = 0
    /\ heap.last[2] \notin heap.queued
    /\ heap.pob[heap.last[2]].state = "live"
    /\ \E c \in heap.last[3] : c \notin heap.queued /\ heap.pob[c].state = "live"

\* C24: the literals term_graph::project(decls, exclude) returns are over
\* the kept vocabulary: with exclude none of them mentions a declaration
\* of decls, without exclude every declaration they mention is in decls.
C24_ProjectVocabulary ==
    (tg # <<>> /\ tg.out # <<>>) =>
        \A n \in 1 .. Len(tg.out.lits) :
            IF tg.out.exclude
            THEN Symbols(tg.out.lits[n]) \cap tg.out.decls = {}
            ELSE Symbols(tg.out.lits[n]) \subseteq tg.out.decls

\* the terms of the graph that have the root r
ClassOf(G, r) == {t \in DOMAIN G.root : G.root[t] = r}

\* C30: after any sequence of calls every root pointer designates a term
\* that is its own root, the cyclic next list of a term holds exactly the
\* terms with its root, and the size stored at a root is the number of
\* terms of its list.
C30_ClassStructure ==
    tg # <<>> =>
        LET G == tg.graph
        IN  \A t \in DOMAIN G.root :
                /\ G.root[G.root[t]] = G.root[t]
                /\ {t} \cup Range(others(G, t)) = ClassOf(G, G.root[t])
                /\ Len(others(G, t)) + 1 = Cardinality(ClassOf(G, G.root[t]))
                /\ G.root[t] = t => G.size[t] = Cardinality(ClassOf(G, t))

C30_Witness ==
    /\ tg # <<>>
    /\ tg.ops = MaxOps
    /\ \E t \in DOMAIN tg.graph.root :
          /\ tg.graph.root[t] = t
          /\ tg.graph.size[t] = 3
          /\ t = tg.graph.terms[Len(tg.graph.terms)]

\* ---------------------------------------------------------------------------
\* The global generalizer (spacer_global_generalizer.cpp)
\* ---------------------------------------------------------------------------

MaxGas == 2
MaxGenCalls == 2
MaxLits == 2

\* the literals that model-based projection can produce
Lits == 1..MaxLits

\* lbool answers of solver::check_sat
Answers == {"l_true", "l_false", "l_undef"}

\* the formulas subsume asserts in m_solver during call c
pat(c) == [f |-> "cvx_pattern", call |-> c, lits |-> {}]
neg_expr(c) == [f |-> "lemmas", call |-> c, lits |-> {}]
asmpt(c, neg_mbp) == [f |-> "neg_mbp", call |-> c, lits |-> neg_mbp]

\* m_solver as its stack of assertion scopes
push(S) == Append(S, {})
assert_expr(S, f) == [S EXCEPT ![Len(S)] = @ \cup {f}]
pop(S, n) == SubSeq(S, 1, Len(S) - n)

\* the guidance fields of a pob, none set
no_guidance ==
    [concretize |-> FALSE, conj |-> FALSE, subsume |-> {}, bindings |-> <<>>,
     may_pob_lvl |-> 0, local_gen |-> TRUE, expand_bnd |-> FALSE, gas |-> 0]

\* the test pt_cls->get_gas() == 0 of core
out_of_gas_never(g) == FALSE
out_of_gas(g) == g = 0

\* pt_cls->dec_gas() as core calls it; the call is recorded with its path and
\* the gas at that moment. The body of dec_gas is not part of the sources: at
\* gas 0 an unsigned counter either stays (guarded) or wraps.
dec_gas(G, path, wraps) ==
    [G EXCEPT !.gas  = IF @ > 0 THEN @ - 1 ELSE IF wraps THEN CounterMod - 1 ELSE 0,
              !.decs = @ \cup {[path |-> path, gas |-> G.gas]}]

\* core returns to operator(), which returns to the caller; the locals of core
\* and subsume are gone
return_core(G) ==
    [G EXCEPT !.pc = "idle", !.entry = 0, !.res = "l_true",
              !.last = [res |-> "l_true", top |-> <<>>],
              !.mdl = "null", !.mbp = {}, !.subs_gen = {}, !.ret = "none"]

\* subsume returns b to core
return_subsume(G, b) == [G EXCEPT !.pc = "ret", !.ret = IF b THEN "true" ELSE "false"]

\* core up to the call of subsume: the cluster match, the non-linear pattern,
\* the conjecture
core(G, matched, nonlin, conjecture, conj_size, is_smaller, size, wraps) ==
    IF ~matched THEN return_core(G)
    ELSE IF nonlin
    THEN IF out_of_gas(G.gas) THEN return_core(G)
         ELSE return_core(dec_gas([G EXCEPT !.pob.concretize = TRUE,
                                            !.pob.gas = G.pob_gas], "nonlin", wraps))
    ELSE LET C == IF ~conjecture THEN G
                  ELSE IF conj_size = 0 \/ out_of_gas(G.gas)
                  THEN [G EXCEPT !.pob.local_gen = FALSE]
                  ELSE IF ~is_smaller THEN G
                  ELSE dec_gas([G EXCEPT !.pob.conj = TRUE,
                                         !.pob.expand_bnd = TRUE,
                                         !.pob.may_pob_lvl = G.min_lvl + 1,
                                         !.pob.gas = G.pob_gas], "conj", wraps)
         IN  IF size < 2 THEN return_core(C) ELSE [C EXCEPT !.pc = "subsume"]

\* subsume up to its first check_sat (lines 399-472): the early returns, the
\* two pushes, the two assertions and the answer res of the solver
subsume_begin(G, bv_clus, same_sz, no_new_vars, res) ==
    LET E == [G EXCEPT !.entry = Len(G.m_solver), !.ret = "none", !.mbp = {},
                       !.subs_gen = {}, !.mdl = "null"]
        S == assert_expr(push(assert_expr(push(G.m_solver), pat(G.calls))),
                         neg_expr(G.calls))
    IN  IF bv_clus /\ ~same_sz THEN return_subsume(E, FALSE)
        ELSE IF ~no_new_vars /\ bv_clus THEN return_subsume(E, FALSE)
        ELSE [E EXCEPT !.m_solver = S, !.res = res,
                       !.last = [res |-> res, top |-> S], !.pc = "model"]

\* the model for projection (lines 473-481); res2 is the answer of the second
\* check_sat. VERIFY(res == l_true) ends the program on every other answer.
subsume_model(G, res2) ==
    IF G.res = "l_true"
    THEN [G EXCEPT !.mdl = "model", !.m_solver = pop(@, 1), !.pc = "mbp"]
    ELSE LET S == pop(G.m_solver, 1)
             ev == (IF G.res = "l_undef" THEN {"unsat_branch"} ELSE {})
                   \cup (IF res2 = "l_undef" THEN {"model_read"} ELSE {})
         IN  [G EXCEPT !.m_solver = S, !.res = res2,
                       !.last = [res |-> res2, top |-> S],
                       !.mdl = IF res2 = "l_true" THEN "model" ELSE "null",
                       !.undef = @ \cup ev,
                       !.pc = IF res2 = "l_true" THEN "mbp" ELSE "abort"]

\* skolemize_sel_vars on success: one fresh constant gspcVar!(i + idx) is
\* appended to cnsts for each of the n constants of m_dim_frsh_cnsts
skolemize_sel_vars(cnsts, n) == cnsts \o [i \in 1..n |-> Len(cnsts) + i - 1]

\* projection and skolemization (lines 486-512): frsh constants of
\* m_dim_frsh_cnsts are left by qe_project, mbp are the literals of the
\* projected pattern, skmized is the answer of skolemize_sel_vars
subsume_project(G, frsh, mbp, skmized) ==
    LET P == [G EXCEPT !.mbp = mbp]
    IN  IF frsh > 0 /\ ~G.use_ground_pob
        THEN IF ~skmized
             THEN return_subsume([P EXCEPT !.m_solver = pop(@, 1)], FALSE)
             ELSE return_subsume([P EXCEPT !.lemma.bindings = skolemize_sel_vars(@, frsh),
                                           !.subs_gen = mbp], TRUE)
        ELSE [P EXCEPT !.subs_gen = mbp, !.pc = "loop"]

\* one round of the loop of lines 517-549, or the exit of lines 550-554 when
\* no literal is left. res is the answer of the solver, T the literals whose
\* negation the model makes true, ub what reading a model after l_undef does.
subsume_loop(G, res, T, ub) ==
    IF G.subs_gen = {}
    THEN return_subsume([G EXCEPT !.m_solver = pop(@, 1)], FALSE)
    ELSE LET S == assert_expr(push(G.m_solver), asmpt(G.calls, G.subs_gen))
             C == [G EXCEPT !.res = res, !.last = [res |-> res, top |-> S]]
         IN  IF res = "l_false"
             THEN return_subsume([C EXCEPT !.m_solver = pop(S, 2)], TRUE)
             ELSE IF res = "l_undef" /\ ub = "crash"
             THEN [C EXCEPT !.m_solver = S, !.undef = @ \cup {"model_read"},
                            !.pc = "abort"]
             ELSE [C EXCEPT !.m_solver = pop(S, 1),
                            !.subs_gen = @ \ T,
                            !.mdl = "model",
                            !.undef = IF res = "l_undef"
                                      THEN @ \cup {"model_read", "sat_branch"}
                                      ELSE @]

\* core after subsume returned (lines 640-660)
core_end(G, wraps) ==
    IF G.ret = "true"
    THEN LET D == dec_gas([G EXCEPT !.pob.subsume = G.subs_gen,
                                    !.pob.bindings = G.lemma.bindings,
                                    !.pob.may_pob_lvl = G.min_lvl + 1,
                                    !.pob.local_gen = FALSE,
                                    !.pob.gas = G.pob_gas + 1], "subsume", wraps)
         IN  return_core(IF D.gas = 0 THEN D ELSE [D EXCEPT !.pob.expand_bnd = TRUE])
    ELSE return_core(G)

GInit ==
    /\ \E g \in 1..MaxGas, ground \in BOOLEAN :
         gg = [pc |-> "idle", calls |-> 0, use_ground_pob |-> ground,
               m_solver |-> <<>>, entry |-> 0,
               lemma |-> [cube |-> 1, level |-> 1, bindings |-> <<>>],
               lemma0 |-> [cube |-> 1, level |-> 1, bindings |-> <<>>],
               pob |-> no_guidance,
               gas |-> g, pob_gas |-> 1, min_lvl |-> 1, decs |-> {},
               res |-> "l_true", last |-> [res |-> "l_true", top |-> <<>>],
               mdl |-> "null", mbp |-> {}, subs_gen |-> {}, ret |-> "none",
               undef |-> {}]
    /\ walk = <<>>
    /\ heap = <<>>
    /\ tg = <<>>
    /\ hr = <<>>
    /\ SearchIdle
    /\ PoolIdle

GFixed == UNCHANGED <<searchVars, poolVars, walk, heap, tg, hr>>

\* lemma_global_generalizer::operator() on a lemma whose pob has no guidance
\* yet, up to the call of subsume; decs and undef record this call only
GCore ==
    /\ gg.pc = "idle"
    /\ gg.calls < MaxGenCalls
    /\ \E matched, nonlin, conjecture, is_smaller, wraps \in BOOLEAN,
          conj_size \in 0..1, size \in 1..2, bindings \in {<<>>, <<0>>} :
         LET l == [cube |-> 1, level |-> 1, bindings |-> bindings]
         IN  gg' = core([gg EXCEPT !.calls = @ + 1, !.lemma = l, !.lemma0 = l,
                                   !.pob = no_guidance, !.decs = {}, !.undef = {}],
                        matched, nonlin, conjecture, conj_size, is_smaller, size, wraps)
    /\ GFixed

GSubsumeBegin ==
    /\ gg.pc = "subsume"
    /\ \E bv_clus, same_sz, no_new_vars \in BOOLEAN, res \in Answers :
         gg' = subsume_begin(gg, bv_clus, same_sz, no_new_vars, res)
    /\ GFixed

GSubsumeModel ==
    /\ gg.pc = "model"
    /\ \E res2 \in Answers : gg' = subsume_model(gg, res2)
    /\ GFixed

GSubsumeProject ==
    /\ gg.pc = "mbp"
    /\ \E frsh \in 0..1, mbp \in SUBSET Lits, skmized \in BOOLEAN :
         gg' = subsume_project(gg, frsh, mbp, skmized)
    /\ GFixed

GSubsumeLoop ==
    /\ gg.pc = "loop"
    /\ \E res \in Answers, T \in SUBSET gg.subs_gen, ub \in UBOutcomes :
         /\ res = "l_true" => T # {}
         /\ gg' = subsume_loop(gg, res, T, ub)
    /\ GFixed

GCoreEnd ==
    /\ gg.pc = "ret"
    /\ \E wraps \in BOOLEAN : gg' = core_end(gg, wraps)
    /\ GFixed

GNext ==
    \/ GCore
    \/ GSubsumeBegin
    \/ GSubsumeModel
    \/ GSubsumeProject
    \/ GSubsumeLoop
    \/ GCoreEnd

GenSpec == GInit /\ [][GNext]_vars

\* ---- Claims about the global generalizer ----

\* subsume has returned to core, which has not yet continued
Returned == gg # <<>> /\ gg.pc = "ret"

\* C25: on every return path of subsume, true or false, m_solver is left at
\* the scope depth it had on entry: every push of subsume is matched by a pop.
C25_ScopesBalanced ==
    Returned => Len(gg.m_solver) = gg.entry

\* C26: whenever subsume returns true, the last check_sat was unsat and was
\* made with the closure pattern and the negation of the conjunction of
\* subs_gen asserted, and subs_gen is a non-empty part of the literals that
\* model-based projection produced.
C26_OverApproximation ==
    (Returned /\ gg.ret = "true") =>
        /\ gg.last.res = "l_false"
        /\ Len(gg.last.top) >= 2
        /\ asmpt(gg.calls, gg.subs_gen) \in gg.last.top[Len(gg.last.top)]
        /\ pat(gg.calls) \in gg.last.top[Len(gg.last.top) - 1]
        /\ gg.subs_gen # {}
        /\ gg.subs_gen \subseteq gg.mbp

\* C27: an unknown answer of the solver is never handled in subsume as unsat
\* or as sat: no branch of unsat or sat is taken on l_undef and no model is
\* read after l_undef.
C27_UnknownSurfaced ==
    gg # <<>> => gg.undef = {}

\* C28: after operator() returns, the cube, the level and the binding list of
\* the lemma are what they were before the call.
C28_LemmaUnchanged ==
    (gg # <<>> /\ gg.pc = "idle" /\ gg.calls > 0) => gg.lemma = gg.lemma0

\* C29 as stated: every call of dec_gas in core, on the non-linear, the
\* conjecture and the subsume path, is made with the gas of the cluster
\* greater than zero.
C29_DecGasOnlyWithGas ==
    gg # <<>> => \A d \in gg.decs : d.gas > 0

\* C29 amended: the calls of dec_gas on the non-linear and on the conjecture
\* path are made with gas greater than zero, and the gas stays a value of the
\* unsigned counter.
C29_DecGasGuardedBeforeSubsume ==
    gg # <<>> =>
        /\ \A d \in gg.decs : d.path \in {"nonlin", "conj"} => d.gas > 0
        /\ gg.gas \in 0..(CounterMod - 1)

\* in one call of core dec_gas has been called on the conjecture path with the
\* last unit of gas and then on the subsume path with none
C29_Witness ==
    /\ gg # <<>>
    /\ [path |-> "conj", gas |-> 1] \in gg.decs
    /\ [path |-> "subsume", gas |-> 0] \in gg.decs

\* ---- Claims about the term graph: congruence, merging, roots ----

\* the internalized applications of the graph
Apps(G) == {t \in DOMAIN G.root : get_num_args(t) > 0}

\* C31: after every add_lit and add_eq that returned, two internalized
\* applications of the same function symbol whose arguments are pairwise in
\* the same class have the same root.
C31_CongruenceClosed ==
    (tg # <<>> /\ ~tg.graph.crashed) =>
        \A t1 \in Apps(tg.graph) : \A t2 \in Apps(tg.graph) :
            cg_eq(tg.graph, t1, t2) => tg.graph.root[t1] = tg.graph.root[t2]

\* C32: every internalize_eq returns, and then m_merge is empty and no term
\* has its mark bit set.
C32_MergeHygiene ==
    tg # <<>> =>
        /\ ~tg.graph.crashed
        /\ tg.graph.merge = <<>>
        /\ \A t \in DOMAIN tg.graph.mark : ~tg.graph.mark[t]

\* the documented order of preference for roots: a constant before an
\* application, and of two applications the smaller (the vocabulary has no
\* values)
Preferred(t1, t2) ==
    \/ get_num_args(t1) = 0 /\ get_num_args(t2) > 0
    \/ /\ get_num_args(t1) > 0
       /\ get_num_args(t2) > 0
       /\ get_num_exprs(t1) < get_num_exprs(t2)

\* C33: after pick_roots the root of every class is a member that no other
\* member of the class precedes in the documented order of preference.
C33_RootPreference ==
    (tg # <<>> /\ tg.op = "to_lits" /\ ~tg.graph.crashed) =>
        \A t \in DOMAIN tg.graph.root :
            ~Preferred(t, tg.graph.root[t])

\* C34: when a call merges two classes of different size, the root of the
\* class with more terms is the root of the merged class, so that only the
\* terms of the class with fewer terms got a new root.
C34_UnionBySize ==
    [][(tg # <<>> /\ tg'.op \in {"add_lit", "add_eq"} /\ ~tg'.graph.crashed) =>
         \A r1 \in DOMAIN tg.graph.root : \A r2 \in DOMAIN tg.graph.root :
             ( /\ tg.graph.root[r1] = r1
               /\ tg.graph.root[r2] = r2
               /\ tg.graph.size[r1] > tg.graph.size[r2]
               /\ tg'.graph.root[r1] = tg'.graph.root[r2]
               /\ tg'.graph.size[tg'.graph.root[r1]] = tg.graph.size[r1] + tg.graph.size[r2] )
             => tg'.graph.root[r1] = r1]_vars

\* ---------------------------------------------------------------------------
\* Proofs and the hypothesis reducer (hypothesis_reducer)
\* ---------------------------------------------------------------------------
\* A proof node is <<rule, fact, premises>>.  A fact is a clause, a set of
\* literals; a literal is a non-zero integer, -l the complement of l; the
\* empty clause is false.  Equal nodes are one node, as in the hash-consed
\* proof terms of the ast_manager.

get_fact(p) == p[2]
get_num_parents(p) == Len(p[3])
get_parent(p, i) == p[3][i]

is_hypothesis(p) == p[1] = "hypothesis"
is_lemma(p) == p[1] = "lemma"
is_unit_resolution(p) == p[1] = "unit-resolution"
is_false(f) == f = {}

\* the fact f seen as one literal is the complement of the fact g
is_complement(f, g) == \E l \in f : f = {l} /\ g = {0 - l}

mk_hypothesis(l) == <<"hypothesis", {l}, <<>>>>
mk_asserted(c) == <<"asserted", c, <<>>>>
mk_lemma(premise, lemma) == <<"lemma", lemma, <<premise>>>>

\* ast_manager::mk_app on the declaration of a proof step
mk_app(decl, args, fact) == <<decl, fact, args>>

\* ast_manager::mk_unit_resolution: the literals of the first premise that no
\* unit premise complements are left
mk_unit_resolution(pf_args) ==
    <<"unit-resolution",
      {l \in get_fact(pf_args[1]) :
          \A j \in 2 .. Len(pf_args) : get_fact(pf_args[j]) # {0 - l}},
      pf_args>>

\* the nodes of the proof p
RECURSIVE SubProofs(_)
SubProofs(p) == {p} \cup UNION {SubProofs(p[3][i]) : i \in 1 .. Len(p[3])}

\* the elements of the set of integers S in increasing order
RECURSIVE Sorted(_)
Sorted(S) ==
    IF S = {} THEN <<>>
    ELSE LET x == CHOOSE y \in S : \A z \in S : y <= z
         IN  <<x>> \o Sorted(S \ {x})

\* the premises of p that are not in the set seen, in their order
Unseen(p, seen) ==
    LET RECURSIVE F(_)
        F(i) == IF i > Len(p[3]) THEN <<>>
                ELSE (IF p[3][i] \in seen THEN <<>> ELSE <<p[3][i]>>) \o F(i + 1)
    IN  F(1)

\* the marks and sets of the reducer, empty: m_visited, m_active_hyps,
\* m_open_mark, m_hyp_mark
no_hypsets == [visited |-> {}, active_hyps |-> <<>>, open_mark |-> {}, hyp_mark |-> {}]

\* in compute_hypsets: a lemma clears all hypotheses above it
lemma_keeps_hyps(p) == FALSE
lemma_clears_hyps(p) == is_lemma(p)

\* hypothesis_reducer::compute_hypsets, the loop on todo
RECURSIVE compute_hypsets_loop(_, _)
compute_hypsets_loop(H, todo) ==
    IF todo = <<>> THEN H
    ELSE LET p == todo[Len(todo)]
             rest == SubSeq(todo, 1, Len(todo) - 1)
             parents == Unseen(p, H.visited)
             hyps == IF lemma_clears_hyps(p) THEN {}
                     ELSE UNION {H.active_hyps[p[3][i]] : i \in 1 .. Len(p[3])}
         IN  IF p \in H.visited THEN compute_hypsets_loop(H, rest)
             ELSE IF parents # <<>> THEN compute_hypsets_loop(H, todo \o parents)
             ELSE IF is_hypothesis(p)
             THEN compute_hypsets_loop(
                      [H EXCEPT !.visited = @ \cup {p},
                                !.active_hyps = Ext(@, p, {p}),
                                !.open_mark = @ \cup {p},
                                !.hyp_mark = @ \cup {get_fact(p)}], rest)
             ELSE compute_hypsets_loop(
                      [H EXCEPT !.visited = @ \cup {p},
                                !.active_hyps = Ext(@, p, hyps),
                                !.open_mark = IF hyps # {} THEN @ \cup {p} ELSE @], rest)

compute_hypsets(H, pr) == compute_hypsets_loop(H, <<pr>>)

\* hypothesis_reducer::collect_units: the nodes that may enter m_units, and
\* the maps m_units can be; of several units with one fact the one that
\* proof_post_order yields last stays, here any of them
unit_candidates(H, pr) ==
    {p \in SubProofs(pr) : /\ ~is_hypothesis(p)
                            /\ p \notin H.open_mark
                            /\ get_fact(p) \in H.hyp_mark}

collect_units(H, pr) ==
    LET C == unit_candidates(H, pr)
        F == {get_fact(p) : p \in C}
    IN  {u \in [F -> C] : \A f \in F : get_fact(u[f]) = f}

\* hypothesis_reducer::is_ancestor
RECURSIVE is_ancestor_loop(_, _, _)
is_ancestor_loop(p, todo, visited) ==
    IF todo = <<>> THEN FALSE
    ELSE LET cur == todo[Len(todo)]
             rest == SubSeq(todo, 1, Len(todo) - 1)
         IN  IF cur \in visited THEN is_ancestor_loop(p, rest, visited)
             ELSE IF cur = p THEN TRUE
             ELSE is_ancestor_loop(p, rest \o cur[3], visited \cup {cur})

is_ancestor_never(p, q) == FALSE
is_ancestor(p, q) == p = q \/ is_ancestor_loop(p, <<q>>, {})

\* hypothesis_reducer::mk_lemma_core
mk_lemma_core(H, premise, fact) ==
    IF premise \notin H.open_mark THEN premise
    ELSE mk_lemma(premise,
                  {0 - l : l \in UNION {get_fact(hyp) : hyp \in H.active_hyps[premise]}})

\* hypothesis_reducer::mk_unit_resolution_core
mk_unit_resolution_core(ures, args) ==
    LET falses == {i \in 2 .. Len(args) : is_false(get_fact(args[i]))}
        arg0 == args[1]
        fact0 == get_fact(arg0)
        lits == IF get_num_parents(ures) = 2 /\ is_false(get_fact(ures)) THEN <<fact0>>
                ELSE IF Cardinality(fact0) < 2 THEN <<fact0>>
                ELSE [i \in 1 .. Cardinality(fact0) |-> {Sorted(fact0)[i]}]
        found(i) == {j \in 2 .. Len(args) : is_complement(lits[i], get_fact(args[j]))}
        RECURSIVE Units(_)
        Units(i) == IF i > Len(lits) THEN <<>>
                    ELSE (IF found(i) = {} THEN <<>>
                          ELSE <<args[CHOOSE j \in found(i) : \A k \in found(i) : j <= k]>>)
                         \o Units(i + 1)
        pf_args == <<arg0>> \o Units(1)
    IN  IF falses # {} THEN args[CHOOSE i \in falses : \A k \in falses : i <= k]
        ELSE IF Len(pf_args) = 1 THEN arg0
        ELSE mk_unit_resolution(pf_args)

\* hypothesis_reducer::mk_proof_core
mk_proof_core(old, args) ==
    LET falses == {i \in 1 .. Len(args) : is_false(get_fact(args[i]))}
    IN  IF falses # {} THEN args[CHOOSE i \in falses : \A k \in falses : i <= k]
        ELSE mk_app(old[1], args, get_fact(old))

\* a result that is false, whatever its open mark
returns_any_false(H, res) == is_false(get_fact(res))

\* the test that ends the loop of reduce_core: the result is not open and
\* proves false
returns_refutation(H, res) == res \notin H.open_mark /\ is_false(get_fact(res))

\* one round of the loop of hypothesis_reducer::reduce_core on the state R of
\* a call: [pf, H, units, todo, cache, res, replaced, kept, rounds, pc]
reduce_core_step(R) ==
    LET p == R.todo[Len(R.todo)]
        rest == SubSeq(R.todo, 1, Len(R.todo) - 1)
        parents == Unseen(p, DOMAIN R.cache)
        args == [i \in 1 .. Len(p[3]) |-> R.cache[p[3][i]]]
        dirty == \E i \in 1 .. Len(p[3]) : p[3][i] # args[i]
        has_unit == get_fact(p) \in DOMAIN R.units
        tmp == R.units[get_fact(p)]
        proof_of_unit == IF tmp \in DOMAIN R.cache THEN R.cache[tmp] ELSE tmp
        replace == is_hypothesis(p) /\ has_unit /\ ~is_ancestor(p, proof_of_unit)
        res == IF is_hypothesis(p) THEN (IF replace THEN proof_of_unit ELSE p)
               ELSE IF ~dirty THEN p
               ELSE IF is_lemma(p) THEN mk_lemma_core(R.H, args[1], get_fact(p))
               ELSE IF is_unit_resolution(p) THEN mk_unit_resolution_core(p, args)
               ELSE mk_proof_core(p, args)
        H1 == IF is_hypothesis(p)
              THEN (IF has_unit THEN compute_hypsets(R.H, proof_of_unit) ELSE R.H)
              ELSE IF ~dirty THEN R.H
              ELSE compute_hypsets(R.H, res)
    IN  IF R.todo = <<>> THEN [R EXCEPT !.pc = "empty_todo"]
        ELSE IF p \in DOMAIN R.cache THEN [R EXCEPT !.todo = rest, !.rounds = @ + 1]
        ELSE IF parents # <<>> THEN [R EXCEPT !.todo = @ \o parents, !.rounds = @ + 1]
        ELSE [R EXCEPT !.todo = rest,
                       !.rounds = @ + 1,
                       !.cache = Ext(@, p, res),
                       !.H = H1,
                       !.res = res,
                       !.replaced = IF replace THEN @ \cup {<<p, proof_of_unit>>} ELSE @,
                       !.kept = IF is_hypothesis(p) /\ ~replace THEN @ \cup {p} ELSE @,
                       !.pc = IF returns_refutation(H1, res)
                              THEN "returned" ELSE "core"]

\* hypothesis_reducer::reduce up to the entry of the loop of reduce_core:
\* compute_hypsets, then collect_units with m_units = units
reduce(R, units) ==
    [R EXCEPT !.H = compute_hypsets(no_hypsets, R.pf),
              !.units = units, !.todo = <<R.pf>>, !.pc = "core"]

\* ---- the proofs given to the reducer

ProofDepth == 3

\* the literals of the generated proofs
GenLits == {1, 0 - 1}

RECURSIVE OpenHyps(_)
\* the hypotheses of the proof p that no lemma below p discharges
OpenHyps(p) ==
    IF is_hypothesis(p) THEN {p}
    ELSE IF is_lemma(p) THEN {}
    ELSE UNION {OpenHyps(get_parent(p, i)) : i \in 1 .. get_num_parents(p)}

\* a proof of false without open hypotheses at its root
closed_proof(p) == OpenHyps(p) = {}
is_refutation(p) == is_false(get_fact(p)) /\ closed_proof(p)

Hypotheses == {mk_hypothesis(l) : l \in GenLits}
Asserted == {mk_asserted(c) : c \in (SUBSET GenLits) \ {{}}}

\* the proofs with one more step on top of those of S: a unit resolution of
\* one literal, or a lemma on an open proof of false
Grow(S) ==
    S \cup {mk_unit_resolution(<<p, q>>) :
               <<p, q>> \in {pq \in S \X S : \E l \in get_fact(pq[1]) :
                                                get_fact(pq[2]) = {0 - l}}}
      \cup {mk_lemma(p, {0 - l : l \in UNION {get_fact(h) : h \in OpenHyps(p)}}) :
               p \in {q \in S : is_false(get_fact(q)) /\ ~closed_proof(q)}}

RECURSIVE Proofs(_)
Proofs(d) == IF d = 0 THEN Hypotheses \cup Asserted ELSE Grow(Proofs(d - 1))

\* a hypothesis replaced by an asserted unit under a lemma
UnitUnderLemma ==
    LET L == mk_lemma(mk_unit_resolution(<<mk_asserted({0 - 1}), mk_hypothesis(1)>>), {0 - 1})
    IN  mk_unit_resolution(<<L, mk_asserted({1})>>)

\* a lemma on two hypotheses, one of them with a unit in the proof
TwoHypotheses ==
    LET P == mk_unit_resolution(<<mk_asserted({0 - 1, 0 - 2}), mk_hypothesis(1), mk_hypothesis(2)>>)
        L == mk_lemma(P, {0 - 1, 0 - 2})
    IN  mk_unit_resolution(<<L, mk_asserted({1}), mk_asserted({2})>>)

\* a unit whose derivation holds the hypothesis of its own fact
UnitAboveItsHypothesis ==
    LET L == mk_lemma(mk_unit_resolution(<<mk_asserted({0 - 1}), mk_hypothesis(1)>>), {0 - 1})
        NB == mk_unit_resolution(<<mk_asserted({0 - 2, 1}), L>>)
        U == mk_unit_resolution(<<mk_asserted({1, 2}), NB>>)
    IN  mk_unit_resolution(<<mk_asserted({0 - 1}), U>>)

\* a step of another rule above a replaced hypothesis
StepAboveHypothesis ==
    LET S == mk_app("mp", <<mk_hypothesis(1), mk_asserted({0 - 1, 2})>>, {2})
        P == mk_unit_resolution(<<mk_asserted({0 - 2}), S>>)
        L == mk_lemma(P, {0 - 1})
    IN  mk_unit_resolution(<<L, mk_asserted({1})>>)

Refutations ==
    {p \in Proofs(ProofDepth) \cup {UnitUnderLemma, TwoHypotheses,
                                    UnitAboveItsHypothesis, StepAboveHypothesis} :
        is_refutation(p)}

HInit ==
    /\ \E pf \in Refutations :
         hr = [pf |-> pf, H |-> no_hypsets, units |-> <<>>,
               todo |-> <<>>, cache |-> <<>>, res |-> pf, replaced |-> {}, kept |-> {},
               rounds |-> 0, pc |-> "reduce"]
    /\ walk = <<>>
    /\ heap = <<>>
    /\ tg = <<>>
    /\ gg = <<>>
    /\ SearchIdle
    /\ PoolIdle

HFixed == UNCHANGED <<searchVars, poolVars, walk, heap, tg, gg>>

\* hypothesis_reducer::reduce: compute_hypsets, collect_units and the entry
\* of reduce_core
HReduce ==
    /\ hr.pc = "reduce"
    /\ \E units \in collect_units(compute_hypsets(no_hypsets, hr.pf), hr.pf) :
          hr' = reduce(hr, units)
    /\ HFixed

\* one round of the loop of reduce_core
HReduceCore ==
    /\ hr.pc = "core"
    /\ hr' = reduce_core_step(hr)
    /\ HFixed

HNext ==
    \/ HReduce
    \/ HReduceCore

ReducerSpec == HInit /\ [][HNext]_vars

\* ---- claims on the hypothesis reducer

\* the union of the active-hypothesis sets of the premises of p
PremiseHyps(H, p) == UNION {H.active_hyps[get_parent(p, i)] : i \in 1 .. get_num_parents(p)}

\* C35: for every node visited by compute_hypsets the node is open-marked
\* exactly when its set of active hypotheses is not empty; the set of a
\* hypothesis is the node itself, the set of a lemma is empty, and the set of
\* any other node is the union of the sets of its premises
C35_HypsetsShape ==
    hr # <<>> =>
        \A p \in hr.H.visited :
            /\ (p \in hr.H.open_mark) <=> (hr.H.active_hyps[p] # {})
            /\ is_hypothesis(p) => hr.H.active_hyps[p] = {p}
            /\ is_lemma(p) => hr.H.active_hyps[p] = {}
            /\ (~is_hypothesis(p) /\ ~is_lemma(p)) =>
                   hr.H.active_hyps[p] = PremiseHyps(hr.H, p)

\* a lemma over an open premise, a hypothesis and an open step are all visited
C35_Witness ==
    /\ hr # <<>>
    /\ \E p \in hr.H.visited : is_lemma(p) /\ get_parent(p, 1) \in hr.H.open_mark
    /\ \E p \in hr.H.visited : ~is_hypothesis(p) /\ Cardinality(hr.H.active_hyps[p]) = 2

\* every node is pushed by each of its consumers at most, and each entry of
\* todo is met once to push its premises and once to leave
RoundLimit(pf) ==
    2 * (1 + Cardinality(UNION {{<<p, i>> : i \in 1 .. get_num_parents(p)} :
                                   p \in SubProofs(pf)}))

\* C36: reduce_core returns for every refutation: the loop never reads the top
\* of an empty todo stack, it ends within a number of rounds fixed by the size
\* of the proof, and the node it returns proves false and is not open-marked
C36_ReduceReturns ==
    hr # <<>> =>
        /\ hr.pc # "empty_todo"
        /\ hr.rounds <= RoundLimit(hr.pf)
        /\ hr.pc = "returned" =>
               /\ is_false(get_fact(hr.res))
               /\ hr.res \notin hr.H.open_mark

\* a call returned a proof other than the one it was given
C36_Witness ==
    /\ hr # <<>>
    /\ hr.pc = "returned"
    /\ hr.res # hr.pf
    /\ hr.replaced # {}

RECURSIVE Acyclic(_, _)
\* no node of the proof p is met again below itself (path the nodes above p)
Acyclic(p, path) ==
    /\ p \notin path
    /\ \A i \in 1 .. get_num_parents(p) : Acyclic(get_parent(p, i), path \cup {p})

\* C37: a hypothesis is replaced by the derivation of its unit only when it
\* does not occur in that derivation; a hypothesis with no unit, or one that
\* occurs in the derivation of its unit, is kept as it is
C37_AcyclicReplacement ==
    hr # <<>> =>
        /\ \A r \in hr.replaced : r[1] \notin SubProofs(r[2])
        /\ \A p \in hr.kept : hr.cache[p] = p
        /\ \A p \in DOMAIN hr.cache :
               is_hypothesis(p) =>
                   \/ hr.cache[p] = p
                   \/ <<p, hr.cache[p]>> \in hr.replaced

\* a hypothesis with a unit was kept because it occurs in the unit's derivation
C37_Witness ==
    /\ hr # <<>>
    /\ hr.pc = "returned"
    /\ \E p \in hr.kept :
          /\ get_fact(p) \in DOMAIN hr.units
          /\ p \in SubProofs(hr.units[get_fact(p)])

\* ---- claims on pob links

\* C38: no pob is freed while one of its children is alive, and every pointer
\* in the children list of a live pob designates a live pob
C38_NoDanglingLinks ==
    heap # <<>> =>
        \A i \in OIds :
            /\ heap.pob[i].state = "freed" =>
                   \A c \in OIds : heap.pob[c].state = "live" => heap.pob[c].parent # i
            /\ heap.pob[i].state = "live" =>
                   \A c \in heap.pob[i].kids : heap.pob[c].state = "live"

\* a child was freed and left the list of its parent, which lives on with
\* another child and no other reference
C38_Witness ==
    /\ heap # <<>>
    /\ heap.last # <<>>
    /\ heap.last[1] \in {"drop", "pop"}
    /\ heap.pob[heap.last[2]].state = "freed"
    /\ LET p == heap.pob[heap.last[2]].parent
       IN  /\ p # 0
           /\ heap.pob[p].state = "live"
           /\ heap.held[p] = 0
           /\ heap.pob[p].kids # {}
           /\ heap.last[2] \notin heap.pob[p].kids

\* ---- claims on finite levels

\* C39: next_level of a finite level is a finite level, pob::inc_level never
\* turns a finite level into the infinity level, and a lemma whose finite
\* level is stepped by next_level is not inductive afterwards
C39_FiniteStaysFinite ==
    \A n \in 1 .. Len(walk) :
        (walk[n][1] \in {"next", "inc_level"} /\ ~is_infty_level(walk[n][2])) =>
            /\ ~is_infty_level(walk[n][3])
            /\ ~is_inductive([lvl |-> walk[n][3]])

====
